---- MODULE Spec2Model ----
(***************************************************************************)
(* TrackFlow escrow engine (three-status generation, CREATED -> ACTIVE ->  *)
(* COMPLETED): createContract, acceptContract and verifyMilestone as       *)
(* atomic transactions over the contract registry, the account balances    *)
(* and the event log.  A transaction that reverts leaves every variable    *)
(* but the call record `last` as it was.                                   *)
(*                                                                         *)
(* Every call of Spec is a top-level call mined as it is made.             *)
(* verifyMilestone is nonReentrant and writes the record before it calls   *)
(* the carrier, so what a carrier does inside the transfer is, for the     *)
(* registry, a call made after the verification; the carrier's answer to   *)
(* the transfer is an input.  SpecPool spells both out: transactions wait  *)
(* in the mempool and are mined in any order, and the carrier may call     *)
(* back into the contract while it is being paid.                          *)
(***************************************************************************)
EXTENDS Integers, Sequences, FiniteSets, TLC

VARIABLES
    contracts,        \* mapping(uint256 => LogisticsContract), the slots written so far
    nextContractId,   \* uint256 public nextContractId
    balance,          \* ether held by each external account
    escrow,           \* ether held by the TrackFlow contract itself
    events,           \* per contract id (the indexed topic), the events emitted for it
    last,             \* the previous call: the operation and its revert reason ("" on success)
    mempool,          \* verifyMilestone transactions sent to the chain, mined or not yet
    nested,           \* the call the carrier made back into the contract during the
                      \* previous transfer, if any, and its revert reason
    ui,               \* the React state of the MilestoneVerification component
    scanner           \* the QRScanner component: its prop, state, refs and the
                      \* camera streams and readers it has made

vars == <<contracts, nextContractId, balance, escrow, events, last, mempool, nested,
          ui, scanner>>

(***************************************************************************)
(* Bounds of the model.                                                    *)
(***************************************************************************)
MaxContracts == 1      \* createContract is offered while nextContractId < MaxContracts
MaxAttempts == 3       \* verifyMilestone transactions the mempool takes in all
MaxMilestones == 3     \* longest locations / verifiers array offered to createContract
InitialFunds == 4      \* ether of the funded account in the initial state
MaxLocationLen == 2    \* longest location string whose packed bytes are compared
MaxClicks == 2         \* clicks on "Verify with QR Data" the front end takes
MaxScans == 3          \* times the scanner is opened

(***************************************************************************)
(* The environment: accounts, the null identity, location strings.         *)
(***************************************************************************)
NullAddress == 0
Addresses == {1, 2}
LocA == <<65>>
LocB == <<66>>
Locations == {LocA, LocB}

(***************************************************************************)
(* abi.encodePacked(uint256, string, address) and keccak256.               *)
(* A uint256 is packed as 32 big-endian bytes, a string as its raw bytes   *)
(* with no length, an address as 20 big-endian bytes.  keccak256 is the    *)
(* ideal, collision-free digest: it keeps the length of the preimage and   *)
(* every non-zero byte with its position, which determine the preimage, so *)
(* two byte strings have the same digest only when they are equal.         *)
(***************************************************************************)
UintBytes == 32
AddressBytes == 20

RECURSIVE BigEndian(_, _)
BigEndian(v, width) ==
    IF width = 0 THEN <<>> ELSE Append(BigEndian(v \div 256, width - 1), v % 256)

\* the contract identifier left out of the packed bytes
EncodePacked_NoId(contractId, location, verifier) ==
    location \o BigEndian(verifier, AddressBytes)

\* the integers packed in as few bytes as they take, without their leading zeros
EncodePacked_Unpadded(contractId, location, verifier) ==
    LET Trim(bytes) == SubSeq(bytes,
                              CHOOSE k \in 1..(Len(bytes) + 1) :
                                  /\ \A j \in 1..(k - 1) : bytes[j] = 0
                                  /\ k <= Len(bytes) => bytes[k] # 0,
                              Len(bytes))
    IN  Trim(BigEndian(contractId, UintBytes)) \o location
            \o Trim(BigEndian(verifier, AddressBytes))

EncodePacked(contractId, location, verifier) ==
    BigEndian(contractId, UintBytes) \o location \o BigEndian(verifier, AddressBytes)

(***************************************************************************)
(* The client side: ethers.solidityPacked(types, values) packs each value  *)
(* by its type and concatenates; a string is packed as its UTF-8 bytes,    *)
(* which is how a location is held here.                                   *)
(***************************************************************************)
PackedValue(type, value) ==
    CASE type = "uint256" -> BigEndian(value, UintBytes)
      [] type = "string" -> value
      [] type = "address" -> BigEndian(value, AddressBytes)

RECURSIVE solidityPacked(_, _)
solidityPacked(types, values) ==
    IF types = <<>> THEN <<>>
    ELSE PackedValue(types[1], values[1]) \o solidityPacked(Tail(types), Tail(values))

\* the verifier packed before the location
generateMilestoneQRData_VerifierFirst(contractId, location, verifier) ==
    solidityPacked(<<"uint256", "address", "string">>,
                   <<contractId, verifier, location>>)

generateMilestoneQRData(contractId, location, verifier) ==
    solidityPacked(<<"uint256", "string", "address">>,
                   <<contractId, location, verifier>>)

Keccak256(bytes) ==
    [len |-> Len(bytes),
     nonzero |-> [i \in {j \in DOMAIN bytes : bytes[j] # 0} |-> bytes[i]]]

(***************************************************************************)
(* Storage.                                                                *)
(***************************************************************************)
EmptyContract ==
    [shipper |-> NullAddress, carrier |-> NullAddress, recipient |-> NullAddress,
     payment |-> 0, releasedAmount |-> 0, status |-> "CREATED",
     milestones |-> <<>>, completedMilestones |-> 0]

\* contracts[contractId] of a Solidity mapping: a slot never written reads as zero
StorageAt(cs, contractId) ==
    IF contractId \in DOMAIN cs THEN cs[contractId] ELSE EmptyContract

State == [contracts |-> contracts, nextContractId |-> nextContractId,
          balance |-> balance, escrow |-> escrow, events |-> events]

Revert(st, reason) == [err |-> reason, state |-> st]
Success(st) == [err |-> "", state |-> st]

Event(name, contractId, who, amount, milestoneIndex) ==
    [name |-> name, contractId |-> contractId, who |-> who,
     amount |-> amount, milestoneIndex |-> milestoneIndex]

Emit(evs, contractId, ev) ==
    [id \in DOMAIN evs \cup {contractId} |->
        IF id = contractId
        THEN (IF id \in DOMAIN evs THEN Append(evs[id], ev) ELSE <<ev>>)
        ELSE evs[id]]

(***************************************************************************)
(* createContract                                                          *)
(***************************************************************************)
\* every milestone given the first verifier of the array
NewMilestones_FirstVerifier(contractId, locations, verifiers) ==
    [i \in 1..Len(locations) |->
        [qrHash |-> Keccak256(EncodePacked(contractId, locations[i], verifiers[i])),
         location |-> locations[i],
         verifier |-> verifiers[1],
         completed |-> FALSE]]

NewMilestones(contractId, locations, verifiers) ==
    [i \in 1..Len(locations) |->
        [qrHash |-> Keccak256(EncodePacked(contractId, locations[i], verifiers[i])),
         location |-> locations[i],
         verifier |-> verifiers[i],
         completed |-> FALSE]]

\* createContract without the recipient requirement
CreateChecks_NoRecipient(value, carrier, recipient, locations, verifiers) ==
    IF ~(value > 0) THEN "Payment required"
    ELSE IF carrier = NullAddress THEN "Invalid carrier"
    ELSE IF ~(Len(locations) > 0) THEN "No milestones"
    ELSE IF Len(locations) # Len(verifiers) THEN "Mismatched arrays"
    ELSE ""

CreateChecks(value, carrier, recipient, locations, verifiers) ==
    IF ~(value > 0) THEN "Payment required"
    ELSE IF carrier = NullAddress THEN "Invalid carrier"
    ELSE IF recipient = NullAddress THEN "Invalid recipient"
    ELSE IF ~(Len(locations) > 0) THEN "No milestones"
    ELSE IF Len(locations) # Len(verifiers) THEN "Mismatched arrays"
    ELSE ""

\* the identifier read but the counter not advanced
createContract_NoIncrement(st, sender, value, carrier, recipient, locations, verifiers) ==
    LET failed == CreateChecks(value, carrier, recipient, locations, verifiers)
        contractId == st.nextContractId
        c == [shipper |-> sender, carrier |-> carrier, recipient |-> recipient,
              payment |-> value, releasedAmount |-> 0, status |-> "CREATED",
              milestones |-> NewMilestones(contractId, locations, verifiers),
              completedMilestones |-> 0]
    IN  IF failed # "" THEN Revert(st, failed)
        ELSE Success(
            [contracts |-> [id \in DOMAIN st.contracts \cup {contractId} |->
                               IF id = contractId THEN c ELSE st.contracts[id]],
             nextContractId |-> st.nextContractId,
             balance |-> [st.balance EXCEPT ![sender] = @ - value],
             escrow |-> st.escrow + value,
             events |-> Emit(st.events, contractId,
                             Event("ContractCreated", contractId, sender, value, 0))])

createContract(st, sender, value, carrier, recipient, locations, verifiers) ==
    LET failed == CreateChecks(value, carrier, recipient, locations, verifiers)
        contractId == st.nextContractId
        c == [shipper |-> sender, carrier |-> carrier, recipient |-> recipient,
              payment |-> value, releasedAmount |-> 0, status |-> "CREATED",
              milestones |-> NewMilestones(contractId, locations, verifiers),
              completedMilestones |-> 0]
    IN  IF failed # "" THEN Revert(st, failed)
        ELSE Success(
            [contracts |-> [id \in DOMAIN st.contracts \cup {contractId} |->
                               IF id = contractId THEN c ELSE st.contracts[id]],
             nextContractId |-> st.nextContractId + 1,
             balance |-> [st.balance EXCEPT ![sender] = @ - value],
             escrow |-> st.escrow + value,
             events |-> Emit(st.events, contractId,
                             Event("ContractCreated", contractId, sender, value, 0))])

(***************************************************************************)
(* acceptContract                                                          *)
(***************************************************************************)
\* acceptContract without the carrier requirement
AcceptChecks_NoCarrier(c, sender) ==
    IF c.status # "CREATED" THEN "Invalid status" ELSE ""

\* acceptContract without the status requirement
AcceptChecks_NoStatus(c, sender) ==
    IF c.carrier # sender THEN "Not the carrier" ELSE ""

AcceptChecks(c, sender) ==
    IF c.carrier # sender THEN "Not the carrier"
    ELSE IF c.status # "CREATED" THEN "Invalid status"
    ELSE ""

\* the carrier's acceptance applied to every contract it was named in
acceptContract_AcceptsAll(st, sender, contractId) ==
    LET c == StorageAt(st.contracts, contractId)
        failed == AcceptChecks(c, sender)
    IN  IF failed # "" THEN Revert(st, failed)
        ELSE Success(
            [st EXCEPT !.contracts = [id \in DOMAIN @ |->
                            IF @[id].carrier = sender /\ @[id].status = "CREATED"
                            THEN [@[id] EXCEPT !.status = "ACTIVE"] ELSE @[id]],
                       !.events = Emit(@, contractId,
                            Event("ContractAccepted", contractId, sender, 0, 0))])

acceptContract(st, sender, contractId) ==
    LET c == StorageAt(st.contracts, contractId)
        failed == AcceptChecks(c, sender)
    IN  IF failed # "" THEN Revert(st, failed)
        ELSE Success(
            [st EXCEPT !.contracts = [@ EXCEPT ![contractId].status = "ACTIVE"],
                       !.events = Emit(@, contractId,
                            Event("ContractAccepted", contractId, sender, 0, 0))])

(***************************************************************************)
(* verifyMilestone                                                         *)
(***************************************************************************)
\* verifyMilestone without the status requirement
VerifyChecks_NoStatus(c, sender, milestoneIndex, qrData) ==
    IF ~(milestoneIndex < Len(c.milestones)) THEN "Invalid milestone"
    ELSE IF milestoneIndex # c.completedMilestones THEN "Out of order"
    ELSE IF c.milestones[milestoneIndex + 1].completed THEN "Already verified"
    ELSE IF c.milestones[milestoneIndex + 1].verifier # sender THEN "Not authorized"
    ELSE IF Keccak256(qrData) # c.milestones[milestoneIndex + 1].qrHash
         THEN "Invalid QR code"
    ELSE ""

\* verifyMilestone without the order requirement
VerifyChecks_NoOrder(c, sender, milestoneIndex, qrData) ==
    IF c.status # "ACTIVE" THEN "Invalid status"
    ELSE IF ~(milestoneIndex < Len(c.milestones)) THEN "Invalid milestone"
    ELSE IF c.milestones[milestoneIndex + 1].completed THEN "Already verified"
    ELSE IF c.milestones[milestoneIndex + 1].verifier # sender THEN "Not authorized"
    ELSE IF Keccak256(qrData) # c.milestones[milestoneIndex + 1].qrHash
         THEN "Invalid QR code"
    ELSE ""

\* verifyMilestone with neither the order nor the completed requirement
VerifyChecks_NoReplayGuard(c, sender, milestoneIndex, qrData) ==
    IF c.status # "ACTIVE" THEN "Invalid status"
    ELSE IF ~(milestoneIndex < Len(c.milestones)) THEN "Invalid milestone"
    ELSE IF c.milestones[milestoneIndex + 1].verifier # sender THEN "Not authorized"
    ELSE IF Keccak256(qrData) # c.milestones[milestoneIndex + 1].qrHash
         THEN "Invalid QR code"
    ELSE ""

\* verifyMilestone without the verifier requirement
VerifyChecks_NoAuth(c, sender, milestoneIndex, qrData) ==
    IF c.status # "ACTIVE" THEN "Invalid status"
    ELSE IF ~(milestoneIndex < Len(c.milestones)) THEN "Invalid milestone"
    ELSE IF milestoneIndex # c.completedMilestones THEN "Out of order"
    ELSE IF c.milestones[milestoneIndex + 1].completed THEN "Already verified"
    ELSE IF Keccak256(qrData) # c.milestones[milestoneIndex + 1].qrHash
         THEN "Invalid QR code"
    ELSE ""

\* verifyMilestone without the commitment requirement
VerifyChecks_NoQR(c, sender, milestoneIndex, qrData) ==
    IF c.status # "ACTIVE" THEN "Invalid status"
    ELSE IF ~(milestoneIndex < Len(c.milestones)) THEN "Invalid milestone"
    ELSE IF milestoneIndex # c.completedMilestones THEN "Out of order"
    ELSE IF c.milestones[milestoneIndex + 1].completed THEN "Already verified"
    ELSE IF c.milestones[milestoneIndex + 1].verifier # sender THEN "Not authorized"
    ELSE ""

\* the require statements, in their order; "" when all pass
\* the order requirement off by one: the index after the next one is asked for
VerifyChecks_OrderOffByOne(c, sender, milestoneIndex, qrData) ==
    IF c.status # "ACTIVE" THEN "Invalid status"
    ELSE IF ~(milestoneIndex < Len(c.milestones)) THEN "Invalid milestone"
    ELSE IF milestoneIndex # c.completedMilestones + 1 THEN "Out of order"
    ELSE IF c.milestones[milestoneIndex + 1].completed THEN "Already verified"
    ELSE IF c.milestones[milestoneIndex + 1].verifier # sender THEN "Not authorized"
    ELSE IF Keccak256(qrData) # c.milestones[milestoneIndex + 1].qrHash
         THEN "Invalid QR code"
    ELSE ""

\* the caller checked before the order of the milestones
VerifyChecks_AuthFirst(c, sender, milestoneIndex, qrData) ==
    IF c.status # "ACTIVE" THEN "Invalid status"
    ELSE IF ~(milestoneIndex < Len(c.milestones)) THEN "Invalid milestone"
    ELSE IF c.milestones[milestoneIndex + 1].verifier # sender THEN "Not authorized"
    ELSE IF milestoneIndex # c.completedMilestones THEN "Out of order"
    ELSE IF c.milestones[milestoneIndex + 1].completed THEN "Already verified"
    ELSE IF Keccak256(qrData) # c.milestones[milestoneIndex + 1].qrHash
         THEN "Invalid QR code"
    ELSE ""

\* a contract not yet accepted taken for one under way
VerifyChecks_BeforeAcceptance(c, sender, milestoneIndex, qrData) ==
    IF c.status \notin {"CREATED", "ACTIVE"} \/ c.carrier = NullAddress
    THEN "Invalid status"
    ELSE IF ~(milestoneIndex < Len(c.milestones)) THEN "Invalid milestone"
    ELSE IF milestoneIndex # c.completedMilestones THEN "Out of order"
    ELSE IF c.milestones[milestoneIndex + 1].completed THEN "Already verified"
    ELSE IF c.milestones[milestoneIndex + 1].verifier # sender THEN "Not authorized"
    ELSE IF Keccak256(qrData) # c.milestones[milestoneIndex + 1].qrHash
         THEN "Invalid QR code"
    ELSE ""

VerifyChecks(c, sender, milestoneIndex, qrData) ==
    IF c.status # "ACTIVE" THEN "Invalid status"
    ELSE IF ~(milestoneIndex < Len(c.milestones)) THEN "Invalid milestone"
    ELSE IF milestoneIndex # c.completedMilestones THEN "Out of order"
    ELSE IF c.milestones[milestoneIndex + 1].completed THEN "Already verified"
    ELSE IF c.milestones[milestoneIndex + 1].verifier # sender THEN "Not authorized"
    ELSE IF Keccak256(qrData) # c.milestones[milestoneIndex + 1].qrHash
         THEN "Invalid QR code"
    ELSE ""

\* the first milestone taken for the last one
IsLastMilestone_First(c, milestoneIndex) == milestoneIndex = 0

\* the index compared with the length instead of the last index
IsLastMilestone_OffByOne(c, milestoneIndex) == milestoneIndex = Len(c.milestones)

IsLastMilestone(c, milestoneIndex) == milestoneIndex = Len(c.milestones) - 1

\* the per-milestone share rounded up instead of down
ReleaseAmount_RoundsUp(c, milestoneIndex) ==
    LET total == Len(c.milestones)
        perMilestone == (c.payment + total - 1) \div total
    IN  IF milestoneIndex = total - 1
        THEN (IF c.releasedAmount > c.payment THEN -1 ELSE c.payment - c.releasedAmount)
        ELSE perMilestone

\* the last milestone paid the per-milestone share like the others
ReleaseAmount_NoRemainder(c, milestoneIndex) ==
    c.payment \div Len(c.milestones)

\* the amount released for this milestone; -1 stands for the checked-arithmetic
\* panic of payment - releasedAmount
ReleaseAmount(c, milestoneIndex) ==
    LET total == Len(c.milestones)
        perMilestone == c.payment \div total
    IN  IF IsLastMilestone(c, milestoneIndex)
        THEN (IF c.releasedAmount > c.payment THEN -1 ELSE c.payment - c.releasedAmount)
        ELSE perMilestone

\* the counter of completed milestones left as it was
Advance_SkipsCount(c, milestoneIndex, amount) ==
    [c EXCEPT !.milestones[milestoneIndex + 1].completed = TRUE,
              !.status = IF IsLastMilestone(c, milestoneIndex) THEN "COMPLETED" ELSE @,
              !.releasedAmount = @ + amount]

\* every milestone up to the end marked, not only the one verified
Advance_MarksAll(c, milestoneIndex, amount) ==
    [c EXCEPT !.milestones = [k \in DOMAIN @ |->
                                IF k >= milestoneIndex + 1
                                THEN [@[k] EXCEPT !.completed = TRUE] ELSE @[k]],
              !.completedMilestones = @ + 1,
              !.status = IF IsLastMilestone(c, milestoneIndex) THEN "COMPLETED" ELSE @,
              !.releasedAmount = @ + amount]

\* releasedAmount advanced by the whole payment instead of the amount sent
Advance_AddsPayment(c, milestoneIndex, amount) ==
    [c EXCEPT !.milestones[milestoneIndex + 1].completed = TRUE,
              !.completedMilestones = @ + 1,
              !.status = IF milestoneIndex = Len(c.milestones) - 1
                         THEN "COMPLETED" ELSE @,
              !.releasedAmount = @ + c.payment]

\* releasedAmount left as it was when a milestone is paid
Advance_ForgetsRelease(c, milestoneIndex, amount) ==
    [c EXCEPT !.milestones[milestoneIndex + 1].completed = TRUE,
              !.completedMilestones = @ + 1,
              !.status = IF milestoneIndex = Len(c.milestones) - 1
                         THEN "COMPLETED" ELSE @]

\* the record after the state writes that precede the transfer
Advance(c, milestoneIndex, amount) ==
    [c EXCEPT !.milestones[milestoneIndex + 1].completed = TRUE,
              !.completedMilestones = @ + 1,
              !.status = IF IsLastMilestone(c, milestoneIndex) THEN "COMPLETED" ELSE @,
              !.releasedAmount = @ + amount]

\* the carrier not called when there is nothing to pay
verifyMilestone_SkipsZeroTransfer(st, sender, contractId, milestoneIndex, qrData, accepts) ==
    LET c == StorageAt(st.contracts, contractId)
        failed == VerifyChecks(c, sender, milestoneIndex, qrData)
        amount == ReleaseAmount(c, milestoneIndex)
        sent == amount = 0 \/ (accepts /\ st.escrow >= amount)
    IN  IF failed # "" THEN Revert(st, failed)
        ELSE IF amount < 0 THEN Revert(st, "Panic")
        ELSE IF ~sent THEN Revert(st, "Failed to send payment")
        ELSE Success(
            [st EXCEPT !.contracts = [@ EXCEPT ![contractId] =
                                        Advance(c, milestoneIndex, amount)],
                       !.escrow = @ - amount,
                       !.balance = [@ EXCEPT ![c.carrier] = @ + amount],
                       !.events = Emit(Emit(@, contractId,
                            Event("PaymentReleased", contractId, c.carrier,
                                  amount, milestoneIndex)),
                            contractId,
                            Event("MilestoneVerified", contractId, sender,
                                  0, milestoneIndex))])

\* a failed send reported to the caller while the writes made before it stay
verifyMilestone_KeepsProgress(st, sender, contractId, milestoneIndex, qrData, accepts) ==
    LET c == StorageAt(st.contracts, contractId)
        failed == VerifyChecks(c, sender, milestoneIndex, qrData)
        amount == ReleaseAmount(c, milestoneIndex)
        sent == accepts /\ st.escrow >= amount
        moved == IF sent THEN amount ELSE 0
    IN  IF failed # "" THEN Revert(st, failed)
        ELSE IF amount < 0 THEN Revert(st, "Panic")
        ELSE [err |-> IF sent THEN "" ELSE "Failed to send payment",
              state |->
                [st EXCEPT !.contracts = [@ EXCEPT ![contractId] =
                                            Advance(c, milestoneIndex, amount)],
                           !.escrow = @ - moved,
                           !.balance = [@ EXCEPT ![c.carrier] = @ + moved],
                           !.events = IF sent
                                THEN Emit(Emit(@, contractId,
                                        Event("PaymentReleased", contractId, c.carrier,
                                              amount, milestoneIndex)),
                                        contractId,
                                        Event("MilestoneVerified", contractId, sender,
                                              0, milestoneIndex))
                                ELSE @]]

\* the result of the transfer not required: a failed send is taken as sent
verifyMilestone_IgnoresSent(st, sender, contractId, milestoneIndex, qrData, accepts) ==
    LET c == StorageAt(st.contracts, contractId)
        failed == VerifyChecks(c, sender, milestoneIndex, qrData)
        amount == ReleaseAmount(c, milestoneIndex)
        sent == accepts /\ st.escrow >= amount
        moved == IF sent THEN amount ELSE 0
    IN  IF failed # "" THEN Revert(st, failed)
        ELSE IF amount < 0 THEN Revert(st, "Panic")
        ELSE Success(
            [st EXCEPT !.contracts = [@ EXCEPT ![contractId] =
                                        Advance(c, milestoneIndex, amount)],
                       !.escrow = @ - moved,
                       !.balance = [@ EXCEPT ![c.carrier] = @ + moved],
                       !.events = Emit(Emit(@, contractId,
                            Event("PaymentReleased", contractId, c.carrier,
                                  amount, milestoneIndex)),
                            contractId,
                            Event("MilestoneVerified", contractId, sender,
                                  0, milestoneIndex))])

\* the payment made without a PaymentReleased event
verifyMilestone_OmitsPaymentReleased(st, sender, contractId, milestoneIndex, qrData, accepts) ==
    LET c == StorageAt(st.contracts, contractId)
        failed == VerifyChecks(c, sender, milestoneIndex, qrData)
        amount == ReleaseAmount(c, milestoneIndex)
        sent == accepts /\ st.escrow >= amount
    IN  IF failed # "" THEN Revert(st, failed)
        ELSE IF amount < 0 THEN Revert(st, "Panic")
        ELSE IF ~sent THEN Revert(st, "Failed to send payment")
        ELSE Success(
            [st EXCEPT !.contracts = [@ EXCEPT ![contractId] =
                                        Advance(c, milestoneIndex, amount)],
                       !.escrow = @ - amount,
                       !.balance = [@ EXCEPT ![c.carrier] = @ + amount],
                       !.events = Emit(@, contractId,
                            Event("MilestoneVerified", contractId, sender,
                                  0, milestoneIndex))])

\* the amount sent to the caller instead of the carrier
verifyMilestone_PaysCaller(st, sender, contractId, milestoneIndex, qrData, accepts) ==
    LET c == StorageAt(st.contracts, contractId)
        failed == VerifyChecks(c, sender, milestoneIndex, qrData)
        amount == ReleaseAmount(c, milestoneIndex)
        sent == accepts /\ st.escrow >= amount
    IN  IF failed # "" THEN Revert(st, failed)
        ELSE IF amount < 0 THEN Revert(st, "Panic")
        ELSE IF ~sent THEN Revert(st, "Failed to send payment")
        ELSE Success(
            [st EXCEPT !.contracts = [@ EXCEPT ![contractId] =
                                        Advance(c, milestoneIndex, amount)],
                       !.escrow = @ - amount,
                       !.balance = [@ EXCEPT ![sender] = @ + amount],
                       !.events = Emit(Emit(@, contractId,
                            Event("PaymentReleased", contractId, c.carrier,
                                  amount, milestoneIndex)),
                            contractId,
                            Event("MilestoneVerified", contractId, sender,
                                  0, milestoneIndex))])

\* `accepts` is the carrier's answer to the value transfer: an account or a
\* contract with a payable receive accepts, any other receiver reverts
verifyMilestone(st, sender, contractId, milestoneIndex, qrData, accepts) ==
    LET c == StorageAt(st.contracts, contractId)
        failed == VerifyChecks(c, sender, milestoneIndex, qrData)
        amount == ReleaseAmount(c, milestoneIndex)
        sent == accepts /\ st.escrow >= amount
    IN  IF failed # "" THEN Revert(st, failed)
        ELSE IF amount < 0 THEN Revert(st, "Panic")
        ELSE IF ~sent THEN Revert(st, "Failed to send payment")
        ELSE Success(
            [st EXCEPT !.contracts = [@ EXCEPT ![contractId] =
                                        Advance(c, milestoneIndex, amount)],
                       !.escrow = @ - amount,
                       !.balance = [@ EXCEPT ![c.carrier] = @ + amount],
                       !.events = Emit(Emit(@, contractId,
                            Event("PaymentReleased", contractId, c.carrier,
                                  amount, milestoneIndex)),
                            contractId,
                            Event("MilestoneVerified", contractId, sender,
                                  0, milestoneIndex))])

(***************************************************************************)
(* verifyMilestone with the carrier's code spelled out.  While it is paid  *)
(* the carrier may call verifyMilestone again, as msg.sender, and then     *)
(* takes the transfer or reverts; reverting also undoes what its own call  *)
(* did.  The nested call is given a carrier that takes its transfer.       *)
(***************************************************************************)
NoCallback ==
    [reenters |-> FALSE, contractId |-> 0, milestoneIndex |-> 0, qrData |-> <<>>]

\* the contract without its reentrancy guard
NonReentrant_Absent(entered) == ""

\* the nonReentrant modifier: a call made while another is running reverts
NonReentrant(entered) ==
    IF entered THEN "ReentrancyGuardReentrantCall" ELSE ""

\* the carrier's code run on `mid`, the state in which it receives the value
CarrierReceive(mid, carrier, callback, accepts) ==
    LET guard == NonReentrant(TRUE)
        inner == IF ~callback.reenters THEN [err |-> "none", state |-> mid]
                 ELSE IF guard # "" THEN Revert(mid, guard)
                 ELSE verifyMilestone(mid, carrier, callback.contractId,
                                      callback.milestoneIndex, callback.qrData, TRUE)
    IN  [accepted |-> accepts, state |-> inner.state, inner |-> inner.err]

\* a contract that would pay first and write the record afterwards: at the
\* transfer the ether has moved and the record is still the one before the call
AtTransfer_PayFirst(st, contractId, milestoneIndex) ==
    LET c == StorageAt(st.contracts, contractId)
        amount == ReleaseAmount(c, milestoneIndex)
    IN  [st EXCEPT !.escrow = @ - amount,
                   !.balance = [@ EXCEPT ![c.carrier] = @ + amount]]

\* the state in which the carrier receives the value: the writes of lines
\* 163-179 are made and the ether has moved
AtTransfer(st, contractId, milestoneIndex) ==
    LET c == StorageAt(st.contracts, contractId)
        amount == ReleaseAmount(c, milestoneIndex)
    IN  [st EXCEPT !.contracts = [@ EXCEPT ![contractId] =
                                     Advance(c, milestoneIndex, amount)],
                   !.escrow = @ - amount,
                   !.balance = [@ EXCEPT ![c.carrier] = @ + amount]]

verifyMilestoneCall(st, sender, contractId, milestoneIndex, qrData, callback, accepts) ==
    LET c == StorageAt(st.contracts, contractId)
        entered == NonReentrant(FALSE)
        failed == VerifyChecks(c, sender, milestoneIndex, qrData)
        amount == ReleaseAmount(c, milestoneIndex)
        mid == AtTransfer(st, contractId, milestoneIndex)
        rcv == CarrierReceive(mid, c.carrier, callback, accepts)
    IN  IF entered # "" THEN [err |-> entered, state |-> st, inner |-> "none"]
        ELSE IF failed # "" THEN [err |-> failed, state |-> st, inner |-> "none"]
        ELSE IF amount < 0 THEN [err |-> "Panic", state |-> st, inner |-> "none"]
        ELSE IF st.escrow < amount
             THEN [err |-> "Failed to send payment", state |-> st, inner |-> "none"]
        ELSE IF ~rcv.accepted
             THEN [err |-> "Failed to send payment", state |-> st, inner |-> rcv.inner]
        ELSE [err |-> "",
              state |-> [rcv.state EXCEPT !.events =
                            Emit(Emit(@, contractId,
                                Event("PaymentReleased", contractId, c.carrier,
                                      amount, milestoneIndex)),
                                contractId,
                                Event("MilestoneVerified", contractId, sender,
                                      0, milestoneIndex))],
              inner |-> rcv.inner]

(***************************************************************************)
(* The views.  A view returns [err, value]; value is meaningful when err   *)
(* is empty.                                                               *)
(***************************************************************************)
ContractView(c) ==
    [shipper |-> c.shipper, carrier |-> c.carrier, recipient |-> c.recipient,
     payment |-> c.payment, status |-> c.status,
     totalMilestones |-> Len(c.milestones),
     completedMilestones |-> c.completedMilestones]

MilestoneView(m) ==
    [location |-> m.location, verifier |-> m.verifier, completed |-> m.completed]

\* what the caller is left with when a view reverts
NoMilestone == [location |-> <<>>, verifier |-> NullAddress, completed |-> FALSE]

\* getContract made to reject an identifier never allocated
getContract_Checked(st, contractId) ==
    IF contractId >= st.nextContractId
    THEN [err |-> "Contract not found", value |-> ContractView(EmptyContract)]
    ELSE [err |-> "", value |-> ContractView(StorageAt(st.contracts, contractId))]

getContract(st, contractId) ==
    [err |-> "", value |-> ContractView(StorageAt(st.contracts, contractId))]

getMilestone(st, contractId, milestoneIndex) ==
    LET c == StorageAt(st.contracts, contractId)
    IN  IF ~(milestoneIndex < Len(c.milestones))
        THEN [err |-> "Invalid milestone", value |-> NoMilestone]
        ELSE [err |-> "", value |-> MilestoneView(c.milestones[milestoneIndex + 1])]

\* the getter of the public mapping `contracts`: the fields of the record
\* but the milestones array
contractsGetter(st, contractId) ==
    LET c == StorageAt(st.contracts, contractId)
    IN  [shipper |-> c.shipper, carrier |-> c.carrier, recipient |-> c.recipient,
         payment |-> c.payment, releasedAmount |-> c.releasedAmount,
         status |-> c.status, completedMilestones |-> c.completedMilestones]

\* what the carrier's code reads of the contract it is paid for while it
\* receives the value: the views are not guarded against re-entrancy
CarrierObserves(mid, contractId, milestoneIndex) ==
    [contract |-> contractsGetter(mid, contractId),
     milestone |-> getMilestone(mid, contractId, milestoneIndex).value]

(***************************************************************************)
(* Inputs offered to the calls.                                            *)
(***************************************************************************)
\* the ids allocated so far and the first id never allocated (every id beyond
\* reads the same empty slot)
ContractIds == 0..nextContractId

\* the indexes of the contract's milestones and the first index out of range
MilestoneIndexes(contractId) == 0..Len(StorageAt(contracts, contractId).milestones)

\* location arrays of every length up to the bound: A, B, A, B, ...
LocationInputs ==
    {[i \in 1..n |-> IF i % 2 = 1 THEN LocA ELSE LocB] : n \in 0..MaxMilestones}

\* verifier arrays of every length up to the bound: 1, 2, 1, 2, ...
VerifierInputs ==
    {[i \in 1..n |-> IF i % 2 = 1 THEN 1 ELSE 2] : n \in 0..MaxMilestones}

\* byte strings presented to verifyMilestone: the commitment preimage of every
\* milestone createContract can store, under every id it can allocate, and the
\* empty string
QRInputs ==
    {EncodePacked(id, locations[i], verifiers[i]) :
        <<id, locations, verifiers, i>> \in
            {q \in (0..(MaxContracts - 1)) \X LocationInputs \X VerifierInputs
                       \X (1..MaxMilestones) :
                q[4] <= Len(q[2]) /\ Len(q[2]) = Len(q[3])}}
    \cup {<<>>}

\* the carrier is called only after every require has passed; it then either
\* accepts the value or reverts
TransferOutcomes(st, sender, contractId, milestoneIndex, qrData) ==
    IF VerifyChecks(StorageAt(st.contracts, contractId), sender, milestoneIndex,
                    qrData) = ""
    THEN BOOLEAN ELSE {TRUE}

(***************************************************************************)
(* The front end as it is mounted: the useState and useRef initial values  *)
(* of MilestoneVerification and of QRScanner.  null is NullIndex where a   *)
(* milestone index is held and 0 where a stream or a reader is.            *)
(***************************************************************************)
NullIndex == -1

Mounted ==
    [contractId |-> NullIndex,        \* the contract id typed in, once loaded
     status |-> "",                   \* contractDetails.status, "" for no details
     milestones |-> <<>>,
     verifying |-> NullIndex,
     scannerOpen |-> FALSE,
     scanningMilestone |-> NullIndex,
     manualQRData |-> [i \in 0..(MaxMilestones - 1) |-> <<>>],
     error |-> "",
     clicks |-> 0,                    \* clicks on "Verify with QR Data" so far
     clicked |-> NullIndex]           \* the milestone of the last such click

Closed ==
    [isOpen |-> FALSE,
     isScanning |-> FALSE,
     hasPermission |-> "null",
     requests |-> <<>>,               \* the getUserMedia calls made, in order
     streams |-> <<>>,                \* the stream each call returned, if any
     readers |-> <<>>,                \* the reader made after each call, if any
     srcObject |-> 0,                 \* videoRef.current.srcObject
     readerRef |-> 0]                 \* readerRef.current

(***************************************************************************)
(* The transactions.                                                       *)
(***************************************************************************)
Store(r) ==
    /\ contracts' = r.state.contracts
    /\ nextContractId' = r.state.nextContractId
    /\ balance' = r.state.balance
    /\ escrow' = r.state.escrow
    /\ events' = r.state.events

\* a call made directly: nothing waits in the mempool and no call is nested
Commit(r) ==
    /\ Store(r)
    /\ UNCHANGED <<mempool, nested, ui, scanner>>

CreateContract ==
    /\ nextContractId < MaxContracts
    /\ \E sender \in Addresses, carrier \in {NullAddress, 2},
          recipient \in {NullAddress, 1},
          locations \in LocationInputs, verifiers \in VerifierInputs :
       \E value \in 0..balance[sender] :
          LET r == createContract(State, sender, value, carrier, recipient,
                                  locations, verifiers)
          IN  /\ Commit(r)
              /\ last' = [op |-> "createContract", err |-> r.err]

AcceptContract ==
    \E sender \in Addresses, contractId \in ContractIds :
        LET r == acceptContract(State, sender, contractId)
        IN  /\ Commit(r)
            /\ last' = [op |-> "acceptContract", err |-> r.err]

VerifyMilestone ==
    \E sender \in Addresses, contractId \in ContractIds, qrData \in QRInputs :
      \E milestoneIndex \in MilestoneIndexes(contractId) :
      \E accepts \in TransferOutcomes(State, sender, contractId, milestoneIndex, qrData) :
        LET r == verifyMilestone(State, sender, contractId, milestoneIndex,
                                 qrData, accepts)
        IN  /\ Commit(r)
            /\ last' = [op |-> "verifyMilestone", err |-> r.err]

Init ==
    /\ contracts = <<>>
    /\ nextContractId = 0
    /\ balance = [a \in Addresses |-> IF a = 1 THEN InitialFunds ELSE 0]
    /\ escrow = 0
    /\ events = <<>>
    /\ last = [op |-> "deploy", err |-> ""]
    /\ mempool = <<>>
    /\ nested = [op |-> "none", contractId |-> 0, err |-> ""]
    /\ ui = Mounted
    /\ scanner = Closed

Next == CreateContract \/ AcceptContract \/ VerifyMilestone

Spec == Init /\ [][Next]_vars

(***************************************************************************)
(* The parties doing their part.  FairNext keeps of verifyMilestone the    *)
(* calls for the next milestone of an ACTIVE contract (by either account,  *)
(* with the committed bytes or none, to a carrier that takes or refuses    *)
(* the transfer): every other call fails and changes nothing.  The carrier *)
(* of a contract accepting it, and the verifier of its next milestone      *)
(* presenting the committed bytes to a carrier that takes the transfer,    *)
(* are steps of FairNext; FairSpec assumes neither is put off for ever.    *)
(***************************************************************************)
PresentNextMilestone ==
    \E contractId \in DOMAIN contracts, sender \in Addresses, accepts \in BOOLEAN :
        /\ contracts[contractId].status = "ACTIVE"
        /\ \E m \in {contracts[contractId].milestones[
                        contracts[contractId].completedMilestones + 1]} :
           \E qrData \in {EncodePacked(contractId, m.location, m.verifier), <<>>} :
           \E r \in {verifyMilestone(State, sender, contractId,
                                     contracts[contractId].completedMilestones,
                                     qrData, accepts)} :
               /\ Commit(r)
               /\ last' = [op |-> "verifyMilestone", err |-> r.err]

CarrierAccepts(contractId) ==
    /\ contractId \in DOMAIN contracts
    /\ \E r \in {acceptContract(State, contracts[contractId].carrier, contractId)} :
           /\ r.err = ""
           /\ Commit(r)
           /\ last' = [op |-> "acceptContract", err |-> r.err]

VerifierPresents(contractId) ==
    /\ contractId \in DOMAIN contracts
    /\ contracts[contractId].status = "ACTIVE"
    /\ \E m \in {contracts[contractId].milestones[
                    contracts[contractId].completedMilestones + 1]} :
       \E qrData \in {EncodePacked(contractId, m.location, m.verifier)} :
       \E r \in {verifyMilestone(State, m.verifier, contractId,
                                 contracts[contractId].completedMilestones,
                                 qrData, TRUE)} :
           /\ r.err = ""
           /\ Commit(r)
           /\ last' = [op |-> "verifyMilestone", err |-> r.err]

FairNext == CreateContract \/ AcceptContract \/ PresentNextMilestone

FairSpec ==
    /\ Init /\ [][FairNext]_vars
    /\ \A contractId \in 0..(MaxContracts - 1) :
          /\ WF_vars(CarrierAccepts(contractId))
          /\ WF_vars(VerifierPresents(contractId))

(***************************************************************************)
(* The registry with several contracts side by side, and its views.  The   *)
(* arrays offered to createContract hold one or two milestones and the     *)
(* value is 0, 1 or 2, so that one more contract than in Spec fits.        *)
(***************************************************************************)
RegistryQRInputs ==
    {EncodePacked(id, LocA, 1) : id \in 0..MaxContracts}
    \cup {EncodePacked(id, LocB, 2) : id \in 0..MaxContracts}
    \cup {<<>>}

RegistryCreateContract ==
    /\ nextContractId < MaxContracts + 1
    /\ \E sender \in Addresses, carrier \in {NullAddress, 2},
          recipient \in {NullAddress, 1},
          locations \in {<<>>, <<LocA>>, <<LocA, LocB>>},
          verifiers \in {<<1>>, <<1, 2>>} :
       \E value \in {v \in 0..2 : v <= balance[sender]} :
          LET r == createContract(State, sender, value, carrier, recipient,
                                  locations, verifiers)
          IN  /\ Commit(r)
              /\ last' = [op |-> "createContract", err |-> r.err]

RegistryVerifyMilestone ==
    \E sender \in Addresses, contractId \in ContractIds,
       qrData \in RegistryQRInputs :
      \E milestoneIndex \in MilestoneIndexes(contractId) :
      \E accepts \in TransferOutcomes(State, sender, contractId, milestoneIndex, qrData) :
        LET r == verifyMilestone(State, sender, contractId, milestoneIndex,
                                 qrData, accepts)
        IN  /\ Commit(r)
            /\ last' = [op |-> "verifyMilestone", err |-> r.err]

GetContract ==
    \E contractId \in ContractIds :
        /\ last' = [op |-> "getContract", err |-> getContract(State, contractId).err]
        /\ UNCHANGED <<contracts, nextContractId, balance, escrow, events,
                       mempool, nested, ui, scanner>>

GetMilestone ==
    \E contractId \in ContractIds :
      \E milestoneIndex \in MilestoneIndexes(contractId) :
        /\ last' = [op |-> "getMilestone",
                    err |-> getMilestone(State, contractId, milestoneIndex).err]
        /\ UNCHANGED <<contracts, nextContractId, balance, escrow, events,
                       mempool, nested, ui, scanner>>

RegistryNext ==
    \/ RegistryCreateContract
    \/ AcceptContract
    \/ RegistryVerifyMilestone
    \/ GetContract
    \/ GetMilestone

SpecRegistry == Init /\ [][RegistryNext]_vars

(***************************************************************************)
(* Transactions in flight.  verifyMilestone transactions for the next      *)
(* milestone of an ACTIVE contract, signed by its verifier and carrying    *)
(* the committed bytes, are sent to the mempool and mined one at a time    *)
(* in any order; each is one atomic call, during which the carrier may     *)
(* call back.  Contracts of one or two milestones and a payment of 2 are   *)
(* created for it, one more than in Spec if the funds allow, and accepted  *)
(* by their carrier.                                                       *)
(***************************************************************************)
\* the bytes committed for milestone milestoneIndex of contract contractId
Committed(contractId, milestoneIndex) ==
    LET m == contracts[contractId].milestones[milestoneIndex + 1]
    IN  generateMilestoneQRData(contractId, m.location, m.verifier)

\* what the carrier's code may call back: verifyMilestone for any milestone of
\* any contract, with the bytes committed for it
Callbacks ==
    {NoCallback} \cup
    {[reenters |-> TRUE, contractId |-> id, milestoneIndex |-> i,
      qrData |-> Committed(id, i)] :
        <<id, i>> \in {q \in (DOMAIN contracts) \X (0..(MaxMilestones - 1)) :
                          q[2] < Len(contracts[q[1]].milestones)}}

PoolCreateContract ==
    /\ nextContractId < MaxContracts + 1
    /\ \E value \in {v \in {2} : v <= balance[1]},
          arrays \in {<<<<LocA>>, <<1>>>>, <<<<LocA, LocB>>, <<1, 2>>>>} :
       \E r \in {createContract(State, 1, value, 2, 1, arrays[1], arrays[2])} :
          /\ Commit(r)
          /\ last' = [op |-> "createContract", err |-> r.err]

SubmitVerifyMilestone ==
    /\ Len(mempool) < MaxAttempts
    /\ \E contractId \in DOMAIN contracts :
          /\ contracts[contractId].status = "ACTIVE"
          \* the attempts at one milestone are concurrent: all are sent before
          \* any of them is mined
          /\ \A k \in DOMAIN mempool :
                (/\ mempool[k].contractId = contractId
                 /\ mempool[k].milestoneIndex = contracts[contractId].completedMilestones)
                => mempool[k].result = "pending"
          /\ LET i == contracts[contractId].completedMilestones
             IN  mempool' = Append(mempool,
                    [sender |-> contracts[contractId].milestones[i + 1].verifier,
                     contractId |-> contractId,
                     milestoneIndex |-> i,
                     qrData |-> Committed(contractId, i),
                     result |-> "pending"])
    /\ UNCHANGED <<contracts, nextContractId, balance, escrow, events, last, nested,
                   ui, scanner>>

MineVerifyMilestone ==
    \E k \in DOMAIN mempool, callback \in Callbacks, accepts \in BOOLEAN :
        /\ mempool[k].result = "pending"
        /\ \E r \in {verifyMilestoneCall(State, mempool[k].sender, mempool[k].contractId,
                                        mempool[k].milestoneIndex, mempool[k].qrData,
                                        callback, accepts)} :
              /\ Store(r)
              /\ mempool' = [mempool EXCEPT
                                ![k].result = IF r.err = "" THEN "ok" ELSE r.err]
              /\ last' = [op |-> "verifyMilestone", err |-> r.err]
              /\ UNCHANGED <<ui, scanner>>
              /\ nested' = IF r.inner = "none"
                           THEN [op |-> "none", contractId |-> 0, err |-> ""]
                           ELSE [op |-> "verifyMilestone",
                                 contractId |-> callback.contractId, err |-> r.inner]

PoolAcceptContract ==
    \E contractId \in DOMAIN contracts : CarrierAccepts(contractId)

PoolNext ==
    \/ PoolCreateContract
    \/ PoolAcceptContract
    \/ SubmitVerifyMilestone
    \/ MineVerifyMilestone

SpecPool == Init /\ [][PoolNext]_vars

(***************************************************************************)
(* The carrier as an observer.  Each mined verifyMilestone that reaches    *)
(* the transfer of line 180 runs the carrier's code, which reads the       *)
(* record of the contract it is paid for and the milestone being verified  *)
(* before it takes or refuses the value; `nested` keeps what it read next  *)
(* to what the same reads returned before the call.                        *)
(***************************************************************************)
NothingObserved == [op |-> "none", contractId |-> 0, err |-> ""]

MineObserved ==
    \E k \in DOMAIN mempool, accepts \in BOOLEAN :
        /\ mempool[k].result = "pending"
        /\ \E tx \in {mempool[k]} :
           \E r \in {verifyMilestoneCall(State, tx.sender, tx.contractId,
                                        tx.milestoneIndex, tx.qrData,
                                        NoCallback, accepts)} :
           \E reached \in {/\ VerifyChecks(contracts[tx.contractId], tx.sender,
                                           tx.milestoneIndex, tx.qrData) = ""
                            /\ ReleaseAmount(contracts[tx.contractId],
                                             tx.milestoneIndex) \in 0..escrow} :
              /\ Store(r)
              /\ mempool' = [mempool EXCEPT
                                ![k].result = IF r.err = "" THEN "ok" ELSE r.err]
              /\ last' = [op |-> "verifyMilestone", err |-> r.err]
              /\ UNCHANGED <<ui, scanner>>
              /\ nested' =
                    IF ~reached THEN NothingObserved
                    ELSE [op |-> "observe",
                          contractId |-> tx.contractId,
                          milestoneIndex |-> tx.milestoneIndex,
                          err |-> "",
                          value |-> ReleaseAmount(contracts[tx.contractId],
                                                  tx.milestoneIndex),
                          before |-> CarrierObserves(State, tx.contractId,
                                                     tx.milestoneIndex),
                          seen |-> CarrierObserves(
                                      AtTransfer(State, tx.contractId,
                                                 tx.milestoneIndex),
                                      tx.contractId, tx.milestoneIndex)]

ObserveNext ==
    \/ PoolCreateContract
    \/ PoolAcceptContract
    \/ SubmitVerifyMilestone
    \/ MineObserved

SpecObserve == Init /\ [][ObserveNext]_vars

(***************************************************************************)
(* The packed encoding on its own.  Two triples (contractId, location,     *)
(* verifier) are drawn, the locations from the strings of bytes 0 and 1 of *)
(* up to MaxLocationLen bytes, which are the bytes the packed integers are *)
(* made of, and each is packed as createContract packs it.                 *)
(***************************************************************************)
RECURSIVE StringsUpTo(_)
StringsUpTo(n) ==
    IF n = 0 THEN {<<>>}
    ELSE StringsUpTo(n - 1) \cup
         {Append(str, b) : str \in {t \in StringsUpTo(n - 1) : Len(t) = n - 1},
                           b \in {0, 1}}

PackedTriples ==
    [contractId : 0..1, location : StringsUpTo(MaxLocationLen),
     verifier : {NullAddress} \cup Addresses]

InitPacked ==
    /\ contracts = <<>>
    /\ nextContractId = 0
    /\ balance = [a \in Addresses |-> IF a = 1 THEN InitialFunds ELSE 0]
    /\ escrow = 0
    /\ events = <<>>
    /\ last = [op |-> "deploy", err |-> ""]
    /\ mempool \in {<<[triple |-> t, packed |-> FALSE, bytes |-> <<>>],
                       [triple |-> u, packed |-> FALSE, bytes |-> <<>>]>> :
                        t \in PackedTriples, u \in PackedTriples}
    /\ nested = [op |-> "none", contractId |-> 0, err |-> ""]
    /\ ui = Mounted
    /\ scanner = Closed

Pack ==
    /\ \E k \in DOMAIN mempool :
          /\ ~mempool[k].packed
          /\ mempool' = [mempool EXCEPT
                ![k].packed = TRUE,
                ![k].bytes = EncodePacked(mempool[k].triple.contractId,
                                          mempool[k].triple.location,
                                          mempool[k].triple.verifier)]
    /\ UNCHANGED <<contracts, nextContractId, balance, escrow, events, last, nested,
                   ui, scanner>>

SpecPacked == InitPacked /\ [][Pack]_vars

(***************************************************************************)
(* The MilestoneVerification component.  A handler runs on the values of   *)
(* the render it was made in: a state setter it calls changes what the     *)
(* next render sees and nothing the running handler reads.  Each action is *)
(* one handler, run up to its first await on a transaction; the rest of    *)
(* handleQRScan runs when the transaction settles.  QR data is held as the *)
(* bytes its hex string stands for.                                        *)
(***************************************************************************)
FrontEndVars == <<contracts, nextContractId, balance, escrow, events, last, mempool,
                  nested, scanner>>

\* scannedData.length of the hex string "0x.." of the bytes
HexLength(bytes) == 2 + 2 * Len(bytes)

\* handleQRScan as it was made by the render of `rendered`, up to the call of
\* verifyMilestone: what it does with the data
handleQRScan(rendered, scannedData) ==
    LET index == rendered.scanningMilestone
    IN  IF index = NullIndex THEN [does |-> "returns", index |-> index, error |-> ""]
        ELSE IF HexLength(scannedData) < 10
             THEN [does |-> "throws", index |-> index,
                   error |-> "Invalid QR code format"]
        ELSE IF ~(index < Len(rendered.milestones))
             THEN [does |-> "throws", index |-> index, error |-> "TypeError"]
        ELSE IF scannedData #
                  generateMilestoneQRData(rendered.contractId,
                                          rendered.milestones[index + 1].location,
                                          rendered.milestones[index + 1].verifier)
             THEN [does |-> "throws", index |-> index,
                   error |-> "QR code does not match this milestone"]
        ELSE [does |-> "submits", index |-> index, error |-> ""]

\* the state left by a handler that set scanningMilestone to `after` and then
\* ran handleQRScan on `scannedData`; the finally block of handleQRScan runs
\* last when it throws
AfterScan(after, scannedData) ==
    LET h == handleQRScan(ui, scannedData)
    IN  CASE h.does = "returns" -> [ui EXCEPT !.scanningMilestone = after]
          [] h.does = "throws" ->
                [ui EXCEPT !.error = h.error, !.verifying = NullIndex,
                           !.scanningMilestone = NullIndex]
          [] h.does = "submits" ->
                [ui EXCEPT !.error = "", !.verifying = h.index,
                           !.scanningMilestone = after]

\* verifyMilestone(contractId, index, data) of the contract wrapper, signed by
\* the wallet, which the user has set to the verifier of the milestone
Submitted(scannedData) ==
    LET h == handleQRScan(ui, scannedData)
    IN  IF h.does = "submits"
        THEN Append(mempool, [sender |-> ui.milestones[h.index + 1].verifier,
                              contractId |-> ui.contractId,
                              milestoneIndex |-> h.index, qrData |-> scannedData,
                              result |-> "pending"])
        ELSE mempool

\* the manual input and its button are rendered for a milestone not completed
\* of a contract loaded as ACTIVE
ManualInputShown(index) ==
    /\ ui.status = "ACTIVE"
    /\ index < Len(ui.milestones)
    /\ ~ui.milestones[index + 1].completed

\* what loadContract leaves for contract contractId
Loaded(st, contractId) ==
    LET details == getContract(st, contractId).value
    IN  IF details.carrier = NullAddress
        THEN [ui EXCEPT !.contractId = contractId, !.status = "", !.milestones = <<>>,
                        !.error = "Contract not found or invalid"]
        ELSE IF details.totalMilestones = 0
        THEN [ui EXCEPT !.contractId = contractId, !.status = details.status,
                        !.milestones = <<>>, !.error = "Contract has no milestones"]
        ELSE [ui EXCEPT !.contractId = contractId, !.status = details.status,
                        !.error = "",
                        !.milestones = [k \in 1..details.totalMilestones |->
                                          getMilestone(st, contractId, k - 1).value]]

\* the shipper creates the contract the front end is used on
UICreateContract ==
    /\ nextContractId < MaxContracts
    /\ \E value \in {v \in {2} : v <= balance[1]} :
       \E r \in {createContract(State, 1, value, 2, 1, <<LocA, LocB>>, <<1, 2>>)} :
          /\ Commit(r)
          /\ last' = [op |-> "createContract", err |-> r.err]

LoadContract ==
    /\ \E contractId \in ContractIds : ui' = Loaded(State, contractId)
    /\ UNCHANGED FrontEndVars

handleManualQRChange ==
    /\ \E index \in 0..(MaxMilestones - 1) :
          /\ ManualInputShown(index)
          /\ \E k \in DOMAIN ui.milestones :
                ui' = [ui EXCEPT !.manualQRData[index] =
                          generateMilestoneQRData(ui.contractId,
                                                  ui.milestones[k].location,
                                                  ui.milestones[k].verifier)]
    /\ UNCHANGED FrontEndVars

startQRScan ==
    /\ \E index \in 0..(MaxMilestones - 1) :
          /\ ManualInputShown(index)
          /\ ~(ui.verifying = index \/ ui.scannerOpen)
          /\ ui' = [ui EXCEPT !.scanningMilestone = index, !.scannerOpen = TRUE,
                              !.error = ""]
    /\ UNCHANGED FrontEndVars

closeQRScanner ==
    /\ ui.scannerOpen
    /\ ui' = [ui EXCEPT !.scannerOpen = FALSE, !.scanningMilestone = NullIndex]
    /\ UNCHANGED FrontEndVars

\* the scanner decodes the code of a loaded milestone: onScan, then onClose
QRScanned ==
    /\ ui.scannerOpen
    /\ Len(mempool) < MaxAttempts
    /\ \E k \in DOMAIN ui.milestones :
       \E scannedData \in {generateMilestoneQRData(ui.contractId,
                                                   ui.milestones[k].location,
                                                   ui.milestones[k].verifier)} :
          /\ ui' = [AfterScan(ui.scanningMilestone, scannedData) EXCEPT
                        !.scannerOpen = FALSE, !.scanningMilestone = NullIndex]
          /\ mempool' = Submitted(scannedData)
    /\ UNCHANGED <<contracts, nextContractId, balance, escrow, events, last,
                   nested, scanner>>

\* a click on "Verify with QR Data" of milestone index
verifyWithManualQR ==
    /\ ui.clicks < MaxClicks
    /\ Len(mempool) < MaxAttempts
    /\ \E index \in 0..(MaxMilestones - 1) :
          /\ ManualInputShown(index)
          /\ ui.verifying # index
          /\ \E data \in {ui.manualQRData[index]} :
               IF data = <<>>
               THEN /\ ui' = [ui EXCEPT
                                !.error = "Paste QR data for this milestone first.",
                                !.clicks = @ + 1, !.clicked = index]
                    /\ mempool' = mempool
               ELSE /\ ui' = [AfterScan(index, data) EXCEPT
                                !.clicks = @ + 1, !.clicked = index]
                    /\ mempool' = Submitted(data)
    /\ UNCHANGED <<contracts, nextContractId, balance, escrow, events, last,
                   nested, scanner>>

\* the transaction of a handleQRScan is mined or fails and the handler goes
\* on: it reloads the contract on success and shows the reason otherwise
TransactionSettles ==
    \E k \in DOMAIN mempool, accepts \in BOOLEAN :
        /\ mempool[k].result = "pending"
        /\ \E tx \in {mempool[k]} :
           \E r \in {verifyMilestoneCall(State, tx.sender, tx.contractId,
                                        tx.milestoneIndex, tx.qrData,
                                        NoCallback, accepts)} :
              /\ Store(r)
              /\ mempool' = [mempool EXCEPT
                                ![k].result = IF r.err = "" THEN "ok" ELSE r.err]
              /\ last' = [op |-> "verifyMilestone", err |-> r.err]
              /\ ui' = [(IF r.err = "" THEN Loaded(r.state, tx.contractId)
                         ELSE [ui EXCEPT !.error = r.err]) EXCEPT
                            !.verifying = NullIndex,
                            !.scanningMilestone = NullIndex]
              /\ UNCHANGED <<nested, scanner>>

UINext ==
    \/ UICreateContract
    \/ PoolAcceptContract
    \/ LoadContract
    \/ handleManualQRChange
    \/ startQRScan
    \/ closeQRScanner
    \/ QRScanned
    \/ verifyWithManualQR
    \/ TransactionSettles

SpecUI == Init /\ [][UINext]_vars

(***************************************************************************)
(* The QRScanner component.  The video element is rendered only while      *)
(* isOpen, so videoRef.current is null once the scanner is closed, also in *)
(* the effect cleanup that follows the closing render.  startScanning      *)
(* waits for getUserMedia; the rest of it runs when the permission request *)
(* settles, whatever the scanner has become meanwhile.  What the reader    *)
(* does inside the library is left out: a reader is decoding from when it  *)
(* is started until it is reset.                                           *)
(***************************************************************************)
ScannerFrame == <<contracts, nextContractId, balance, escrow, events, last, mempool,
                  nested, ui>>

\* stopScanning run on the scanner `sc`; mounted tells whether
\* videoRef.current is the video element or null
stopScanning(sc, mounted) ==
    [sc EXCEPT
        !.isScanning = FALSE,
        !.readers = IF sc.readerRef # 0
                    THEN [@ EXCEPT ![sc.readerRef] = "reset"] ELSE @,
        !.readerRef = 0,
        !.streams = IF mounted /\ sc.srcObject # 0
                    THEN [@ EXCEPT ![sc.srcObject] = "stopped"] ELSE @,
        !.srcObject = IF mounted THEN 0 ELSE @]

\* the parent sets isOpen to false: the scanner renders nothing, the video
\* element goes, and the effect cleanup and the effect run stopScanning
closes(sc) ==
    IF ~sc.isOpen THEN sc
    ELSE [stopScanning([sc EXCEPT !.isOpen = FALSE], FALSE) EXCEPT !.srcObject = 0]

\* startScanning up to its await
OpenScanner ==
    /\ ~scanner.isOpen
    /\ Len(scanner.requests) < MaxScans
    /\ scanner' = [scanner EXCEPT !.isOpen = TRUE,
                                  !.isScanning = TRUE,
                                  !.requests = Append(@, "pending"),
                                  !.streams = Append(@, "none"),
                                  !.readers = Append(@, "none")]
    /\ UNCHANGED ScannerFrame

\* the close button, or the parent's handleQRError
CloseScanner ==
    /\ scanner.isOpen
    /\ scanner' = closes(scanner)
    /\ UNCHANGED ScannerFrame

\* getUserMedia resolves: the rest of the try block of startScanning
PermissionGranted ==
    /\ \E k \in DOMAIN scanner.requests :
          /\ scanner.requests[k] = "pending"
          /\ scanner' = [scanner EXCEPT
                            !.requests[k] = "granted",
                            !.hasPermission = "true",
                            !.streams[k] = "live",
                            !.srcObject = IF scanner.isOpen THEN k ELSE @,
                            !.readers[k] = "decoding",
                            !.readerRef = k]
    /\ UNCHANGED ScannerFrame

\* getUserMedia rejects: the catch block, whose onError closes the scanner
PermissionDenied ==
    /\ \E k \in DOMAIN scanner.requests :
          /\ scanner.requests[k] = "pending"
          /\ scanner' = [closes([scanner EXCEPT !.requests[k] = "denied"]) EXCEPT
                            !.hasPermission = "false",
                            !.isScanning = FALSE]
    /\ UNCHANGED ScannerFrame

\* the decode callback with a result: onScan, stopScanning, onClose
Decoded ==
    /\ \E k \in DOMAIN scanner.readers :
          /\ scanner.readers[k] = "decoding"
          /\ scanner' = closes(stopScanning(scanner, scanner.isOpen))
    /\ UNCHANGED ScannerFrame

\* the decode callback with an error other than NotFoundException: onError
DecodeFailed ==
    /\ \E k \in DOMAIN scanner.readers :
          /\ scanner.readers[k] = "decoding"
          /\ scanner.isOpen
          /\ scanner' = closes(scanner)
    /\ UNCHANGED ScannerFrame

ScannerNext ==
    \/ OpenScanner
    \/ CloseScanner
    \/ PermissionGranted
    \/ PermissionDenied
    \/ Decoded
    \/ DecodeFailed

SpecScanner == Init /\ [][ScannerNext]_vars

(***************************************************************************)
(* The earlier generation of the contract, with the statuses CREATED,      *)
(* ACCEPTED, IN_TRANSIT, DELIVERED and DISPUTED.  Its records have no      *)
(* releasedAmount; a milestone's timestamp is written at creation and      *)
(* never read, and is left out.  createContract makes the same checks and  *)
(* builds the same milestones as the later generation.  The payment is     *)
(* released whole or not at all, so the values 0 and 1 are offered.         *)
(***************************************************************************)
StatusV1 == {"CREATED", "ACCEPTED", "IN_TRANSIT", "DELIVERED", "DISPUTED"}

EmptyContractV1 ==
    [shipper |-> NullAddress, carrier |-> NullAddress, recipient |-> NullAddress,
     payment |-> 0, status |-> "CREATED", milestones |-> <<>>,
     completedMilestones |-> 0]

StorageAtV1(cs, contractId) ==
    IF contractId \in DOMAIN cs THEN cs[contractId] ELSE EmptyContractV1

createContractV1(st, sender, value, carrier, recipient, locations, verifiers) ==
    LET failed == CreateChecks(value, carrier, recipient, locations, verifiers)
        contractId == st.nextContractId
        c == [shipper |-> sender, carrier |-> carrier, recipient |-> recipient,
              payment |-> value, status |-> "CREATED",
              milestones |-> NewMilestones(contractId, locations, verifiers),
              completedMilestones |-> 0]
    IN  IF failed # "" THEN Revert(st, failed)
        ELSE Success(
            [contracts |-> [id \in DOMAIN st.contracts \cup {contractId} |->
                               IF id = contractId THEN c ELSE st.contracts[id]],
             nextContractId |-> st.nextContractId + 1,
             balance |-> [st.balance EXCEPT ![sender] = @ - value],
             escrow |-> st.escrow + value,
             events |-> Emit(st.events, contractId,
                             Event("ContractCreated", contractId, sender, value, 0))])

acceptContractV1(st, sender, contractId) ==
    LET c == StorageAtV1(st.contracts, contractId)
        failed == AcceptChecks(c, sender)
    IN  IF failed # "" THEN Revert(st, failed)
        ELSE Success(
            [st EXCEPT !.contracts = [@ EXCEPT ![contractId].status = "ACCEPTED"],
                       !.events = Emit(@, contractId,
                            Event("ContractAccepted", contractId, sender, 0, 0))])

VerifyChecksV1(c, sender, milestoneIndex, qrData) ==
    IF c.status \notin {"ACCEPTED", "IN_TRANSIT"} THEN "Invalid status"
    ELSE IF ~(milestoneIndex < Len(c.milestones)) THEN "Invalid milestone"
    ELSE IF c.milestones[milestoneIndex + 1].completed THEN "Already verified"
    ELSE IF c.milestones[milestoneIndex + 1].verifier # sender THEN "Not authorized"
    ELSE IF Keccak256(qrData) # c.milestones[milestoneIndex + 1].qrHash
         THEN "Invalid QR code"
    ELSE ""

\* a milestone verified ahead of an earlier one raising a dispute
StatusAfterV1_DisputesSkipped(c, milestoneIndex) ==
    IF milestoneIndex # c.completedMilestones THEN "DISPUTED"
    ELSE IF milestoneIndex = 0 THEN "IN_TRANSIT"
    ELSE IF milestoneIndex = Len(c.milestones) - 1 THEN "DELIVERED"
    ELSE c.status

\* the status written after milestoneIndex is verified: if / else if
StatusAfterV1(c, milestoneIndex) ==
    IF milestoneIndex = 0 THEN "IN_TRANSIT"
    ELSE IF milestoneIndex = Len(c.milestones) - 1 THEN "DELIVERED"
    ELSE c.status

\* the payment is sent in the else-if branch only
PaysV1(c, milestoneIndex) ==
    milestoneIndex # 0 /\ milestoneIndex = Len(c.milestones) - 1

verifyMilestoneV1(st, sender, contractId, milestoneIndex, qrData, accepts) ==
    LET c == StorageAtV1(st.contracts, contractId)
        failed == VerifyChecksV1(c, sender, milestoneIndex, qrData)
        pays == PaysV1(c, milestoneIndex)
        amount == IF pays THEN c.payment ELSE 0
        sent == accepts /\ st.escrow >= amount
        d == [c EXCEPT !.milestones[milestoneIndex + 1].completed = TRUE,
                       !.completedMilestones = @ + 1,
                       !.status = StatusAfterV1(c, milestoneIndex)]
        verified == Event("MilestoneVerified", contractId, sender, 0, milestoneIndex)
    IN  IF failed # "" THEN Revert(st, failed)
        ELSE IF pays /\ ~sent THEN Revert(st, "Failed to send payment")
        ELSE Success(
            [st EXCEPT !.contracts = [@ EXCEPT ![contractId] = d],
                       !.escrow = @ - amount,
                       !.balance = [@ EXCEPT ![c.carrier] = @ + amount],
                       !.events =
                           IF pays
                           THEN Emit(Emit(@, contractId,
                                    Event("PaymentReleased", contractId, c.carrier,
                                          amount, milestoneIndex)),
                                    contractId, verified)
                           ELSE Emit(@, contractId, verified)])

\* the carrier is called only in the paying branch
TransferOutcomesV1(st, sender, contractId, milestoneIndex, qrData) ==
    LET c == StorageAtV1(st.contracts, contractId)
    IN  IF VerifyChecksV1(c, sender, milestoneIndex, qrData) = ""
           /\ PaysV1(c, milestoneIndex)
        THEN BOOLEAN ELSE {TRUE}

MilestoneIndexesV1(contractId) ==
    0..Len(StorageAtV1(contracts, contractId).milestones)

CreateContractV1 ==
    /\ nextContractId < MaxContracts
    /\ \E sender \in Addresses, carrier \in {NullAddress, 2},
          recipient \in {NullAddress, 1},
          locations \in LocationInputs, verifiers \in VerifierInputs :
       \E value \in {v \in 0..1 : v <= balance[sender]} :
          LET r == createContractV1(State, sender, value, carrier, recipient,
                                    locations, verifiers)
          IN  /\ Commit(r)
              /\ last' = [op |-> "createContract", err |-> r.err]

AcceptContractV1 ==
    \E sender \in Addresses, contractId \in ContractIds :
        LET r == acceptContractV1(State, sender, contractId)
        IN  /\ Commit(r)
            /\ last' = [op |-> "acceptContract", err |-> r.err]

\* the bytes committed for the milestones createContract can store under
\* contractId, and the empty string
QRInputsV1(contractId) ==
    {EncodePacked(contractId, LocA, 1), EncodePacked(contractId, LocB, 2), <<>>}

VerifyMilestoneV1 ==
    \E sender \in Addresses, contractId \in ContractIds :
    \E qrData \in QRInputsV1(contractId) :
      \E milestoneIndex \in MilestoneIndexesV1(contractId) :
      \E accepts \in TransferOutcomesV1(State, sender, contractId, milestoneIndex, qrData) :
        LET r == verifyMilestoneV1(State, sender, contractId, milestoneIndex,
                                   qrData, accepts)
        IN  /\ Commit(r)
            /\ last' = [op |-> "verifyMilestone", err |-> r.err]

NextV1 == CreateContractV1 \/ AcceptContractV1 \/ VerifyMilestoneV1

SpecV1 == Init /\ [][NextV1]_vars

(***************************************************************************)
(* Properties.  A property over "every call" is stated over the result of  *)
(* the operation applied, in the current state, to every input the actions *)
(* offer: these are exactly the steps the actions take.                    *)
(***************************************************************************)
Created == DOMAIN contracts

PaymentEvents(id) == SelectSeq(events[id], LAMBDA e : e.name = "PaymentReleased")
VerifiedEvents(id) == SelectSeq(events[id], LAMBDA e : e.name = "MilestoneVerified")

RECURSIVE SumAmounts(_)
SumAmounts(evs) == IF evs = <<>> THEN 0 ELSE evs[1].amount + SumAmounts(Tail(evs))

VerifyResult(sender, contractId, milestoneIndex, qrData, accepts) ==
    verifyMilestone(State, sender, contractId, milestoneIndex, qrData, accepts)

\* C1: every contract record satisfies releasedAmount <= payment, in every
\* state reached by createContract, acceptContract and verifyMilestone calls,
\* successful or failing.
C1_ReleasedAtMostPayment ==
    \A id \in Created : contracts[id].releasedAmount <= contracts[id].payment

\* a contract part of whose payment has been released, after a call that failed
C1_Witness ==
    /\ last.err # ""
    /\ \E id \in Created :
          /\ contracts[id].releasedAmount > 0
          /\ contracts[id].releasedAmount < contracts[id].payment

\* C2: for every contract, releasedAmount = payment exactly when the status
\* is COMPLETED.
C2_FullyReleasedIffCompleted ==
    \A id \in Created :
        (contracts[id].releasedAmount = contracts[id].payment)
            <=> (contracts[id].status = "COMPLETED")

\* a completed contract of several milestones whose payment they do not divide
C2_Witness ==
    \E id \in Created :
        /\ contracts[id].status = "COMPLETED"
        /\ Len(contracts[id].milestones) > 1
        /\ contracts[id].payment % Len(contracts[id].milestones) # 0
        /\ contracts[id].releasedAmount = contracts[id].payment

\* the amount the payment rule prescribes for a milestone
C3_ExpectedAmount(c, milestoneIndex) ==
    IF milestoneIndex = Len(c.milestones) - 1
    THEN c.payment - c.releasedAmount
    ELSE c.payment \div Len(c.milestones)

\* C3: with payment p and n milestones, a successful verification of a
\* non-final milestone moves exactly p \div n from the engine to the carrier,
\* that of the final milestone exactly p - releasedAmount, and the amounts of
\* the n verifications sum to p.
C3_ReleaseAmounts ==
    \A id \in Created :
        LET c == contracts[id]
            n == Len(c.milestones)
            pays == PaymentEvents(id)
        IN  /\ Len(pays) = c.completedMilestones
            /\ \A k \in 1..Len(pays) :
                  /\ pays[k].milestoneIndex = k - 1
                  /\ pays[k].who = c.carrier
                  /\ pays[k].amount =
                        IF k = n THEN c.payment - (n - 1) * (c.payment \div n)
                        ELSE c.payment \div n
            /\ Len(pays) = n => SumAmounts(pays) = c.payment
            /\ \A sender \in Addresses, i \in MilestoneIndexes(id), qrData \in QRInputs :
                  LET r == VerifyResult(sender, id, i, qrData, TRUE)
                      amount == C3_ExpectedAmount(c, i)
                  IN  r.err = "" =>
                        /\ r.state.escrow = escrow - amount
                        /\ r.state.balance = [balance EXCEPT ![c.carrier] = @ + amount]
                        /\ r.state.contracts[id].releasedAmount =
                              c.releasedAmount + amount

\* payment 4 over 3 milestones, all verified: released 1, 1, 2
C3_Witness ==
    \E id \in Created :
        /\ contracts[id].payment = 4
        /\ Len(contracts[id].milestones) = 3
        /\ Len(PaymentEvents(id)) = 3
        /\ PaymentEvents(id)[1].amount = 1
        /\ PaymentEvents(id)[2].amount = 1
        /\ PaymentEvents(id)[3].amount = 2
        /\ balance[contracts[id].carrier] >= 4

\* the status changes a step may make
C4_StatusStep(s, t) ==
    \/ t = s
    \/ s = "CREATED" /\ t = "ACTIVE"
    \/ s = "ACTIVE" /\ t = "COMPLETED"

\* C4: the status of a contract changes only CREATED -> ACTIVE and
\* ACTIVE -> COMPLETED; a record, once created, stays in the registry.
C4_StatusOnlyForward ==
    [][/\ \A id \in DOMAIN contracts :
            /\ id \in DOMAIN contracts'
            /\ C4_StatusStep(contracts[id].status, contracts'[id].status)
       /\ \A id \in DOMAIN contracts' \ DOMAIN contracts :
            contracts'[id].status = "CREATED"]_vars

\* a contract that has gone through both transitions, after which a further
\* acceptContract or verifyMilestone has been attempted on it
C4_Witness ==
    /\ last.op \in {"acceptContract", "verifyMilestone"}
    /\ last.err = "Invalid status"
    /\ \E id \in Created :
          /\ contracts[id].status = "COMPLETED"
          /\ Len(VerifiedEvents(id)) = Len(contracts[id].milestones)

\* C5: on an ACTIVE contract, verifyMilestone with an index in range other
\* than completedMilestones fails with "Out of order" for every caller and
\* all presented bytes, and leaves the state as it was.
C5_OutOfOrderRejected ==
    \A id \in Created :
    \A sender \in Addresses, i \in MilestoneIndexes(id),
       qrData \in QRInputs, accepts \in BOOLEAN :
        LET c == contracts[id]
            r == VerifyResult(sender, id, i, qrData, accepts)
        IN  (c.status = "ACTIVE" /\ i < Len(c.milestones) /\ i # c.completedMilestones)
                => (r.err = "Out of order" /\ r.state = State)

\* milestone 1 of a two-milestone contract presented before milestone 0
C5_Witness ==
    /\ last.op = "verifyMilestone"
    /\ last.err = "Out of order"
    /\ \E id \in Created :
          /\ contracts[id].status = "ACTIVE"
          /\ Len(contracts[id].milestones) = 2
          /\ contracts[id].completedMilestones = 0

\* C6: verifyMilestone on an index whose milestone is completed fails, for
\* every caller and all bytes, in every status, and changes nothing; no
\* milestone index has more than one payment released for it.
C6_CompletedNeverReverified ==
    \A id \in Created :
        LET c == contracts[id]
            pays == PaymentEvents(id)
        IN  /\ \A i \in 0..(Len(c.milestones) - 1) :
                  /\ c.milestones[i + 1].completed =>
                        \A sender \in Addresses, qrData \in QRInputs, accepts \in BOOLEAN :
                            LET r == VerifyResult(sender, id, i, qrData, accepts)
                            IN  r.err # "" /\ r.state = State
                  /\ Cardinality({k \in 1..Len(pays) : pays[k].milestoneIndex = i}) <= 1

\* milestone 0 of a two-milestone contract presented again after it was verified,
\* the contract still being ACTIVE
C6_Witness ==
    /\ last.op = "verifyMilestone"
    /\ last.err = "Out of order"
    /\ \E id \in Created :
          /\ contracts[id].status = "ACTIVE"
          /\ Len(contracts[id].milestones) = 2
          /\ contracts[id].milestones[1].completed
          /\ Len(PaymentEvents(id)) = 1

\* C7: when every requirement passes and the carrier refuses the transfer,
\* verifyMilestone fails with "Failed to send payment" and the registry, the
\* balances and the event log are as before the call.
C7_FailedTransferRollsBack ==
    \A id \in ContractIds :
    \A sender \in Addresses, i \in MilestoneIndexes(id), qrData \in QRInputs :
        LET c == StorageAt(contracts, id)
            r == VerifyResult(sender, id, i, qrData, FALSE)
        IN  VerifyChecks(c, sender, i, qrData) = ""
                => (r.err = "Failed to send payment" /\ r.state = State)

\* a refused transfer on a contract whose first milestone is still pending
C7_Witness ==
    /\ last.op = "verifyMilestone"
    /\ last.err = "Failed to send payment"
    /\ \E id \in Created :
          /\ contracts[id].status = "ACTIVE"
          /\ contracts[id].completedMilestones = 0
          /\ contracts[id].releasedAmount = 0
          /\ escrow = contracts[id].payment
          /\ Len(events[id]) = 2

\* C8: verifyMilestone succeeds only for the verifier stored for the milestone;
\* any other caller presenting the next index of an ACTIVE contract fails with
\* "Not authorized", whatever the bytes, and changes nothing.
C8_OnlyVerifier ==
    \A id \in Created :
    \A sender \in Addresses, i \in MilestoneIndexes(id),
       qrData \in QRInputs, accepts \in BOOLEAN :
        LET c == contracts[id]
            r == VerifyResult(sender, id, i, qrData, accepts)
        IN  /\ r.err = "" => (i < Len(c.milestones) /\ sender = c.milestones[i + 1].verifier)
            /\ (/\ c.status = "ACTIVE"
                /\ i < Len(c.milestones)
                /\ i = c.completedMilestones
                /\ sender # c.milestones[i + 1].verifier)
                   => (r.err = "Not authorized" /\ r.state = State)

\* a caller other than the verifier was turned away; bytes that hash to the
\* commitment of the pending milestone exist among the inputs
C8_Witness ==
    /\ last.op = "verifyMilestone"
    /\ last.err = "Not authorized"
    /\ \E id \in Created :
          /\ contracts[id].status = "ACTIVE"
          /\ \E qrData \in QRInputs :
                Keccak256(qrData) =
                    contracts[id].milestones[contracts[id].completedMilestones + 1].qrHash

\* C9: the stored verifier presenting the next index of an ACTIVE contract with
\* bytes whose hash differs from the stored commitment fails with
\* "Invalid QR code"; no milestone is completed and no funds are released.
C9_WrongBytesRejected ==
    \A id \in Created :
    \A sender \in Addresses, i \in MilestoneIndexes(id),
       qrData \in QRInputs, accepts \in BOOLEAN :
        LET c == contracts[id]
            r == VerifyResult(sender, id, i, qrData, accepts)
        IN  (/\ c.status = "ACTIVE"
             /\ i < Len(c.milestones)
             /\ i = c.completedMilestones
             /\ sender = c.milestones[i + 1].verifier
             /\ Keccak256(qrData) # c.milestones[i + 1].qrHash)
                => (r.err = "Invalid QR code" /\ r.state = State)

\* the verifier was turned away for the bytes, after an earlier milestone was verified
C9_Witness ==
    /\ last.op = "verifyMilestone"
    /\ last.err = "Invalid QR code"
    /\ \E id \in Created :
          /\ contracts[id].status = "ACTIVE"
          /\ contracts[id].completedMilestones = 1

\* C10: verifyMilestone on a contract whose status is not ACTIVE fails with
\* "Invalid status" for every caller, index and bytes, and changes nothing.
C10_NotActiveRejected ==
    \A id \in ContractIds :
    \A sender \in Addresses, i \in MilestoneIndexes(id),
       qrData \in QRInputs, accepts \in BOOLEAN :
        LET c == StorageAt(contracts, id)
            r == VerifyResult(sender, id, i, qrData, accepts)
        IN  c.status # "ACTIVE" => (r.err = "Invalid status" /\ r.state = State)

\* verification attempted on a contract that has not been accepted
C10_Witness ==
    /\ last.op = "verifyMilestone"
    /\ last.err = "Invalid status"
    /\ \E id \in Created :
          /\ contracts[id].status = "CREATED"
          /\ contracts[id].releasedAmount = 0
          /\ \A k \in DOMAIN contracts[id].milestones :
                ~contracts[id].milestones[k].completed

AcceptResult(sender, contractId) == acceptContract(State, sender, contractId)

\* C11: acceptContract succeeds only for the carrier of a CREATED contract and
\* then sets the status to ACTIVE and nothing else in the record; any other
\* caller gets "Not the carrier", the carrier in any other status gets
\* "Invalid status", a failed call changes nothing, and no contract is
\* accepted twice.
C11_AcceptOnlyCarrierOnce ==
    \A id \in ContractIds, sender \in Addresses :
        LET c == StorageAt(contracts, id)
            r == AcceptResult(sender, id)
        IN  /\ r.err = "" =>
                  /\ sender = c.carrier /\ c.status = "CREATED"
                  /\ r.state.contracts[id] = [c EXCEPT !.status = "ACTIVE"]
            /\ sender # c.carrier => (r.err = "Not the carrier" /\ r.state = State)
            /\ (sender = c.carrier /\ c.status # "CREATED")
                  => (r.err = "Invalid status" /\ r.state = State)
            /\ (sender = c.carrier /\ c.status = "CREATED") => r.err = ""
            /\ id \in Created =>
                  Len(SelectSeq(events[id],
                                LAMBDA e : e.name = "ContractAccepted")) <= 1

\* the carrier tried to accept a contract it had already accepted
C11_Witness ==
    /\ last.op = "acceptContract"
    /\ last.err = "Invalid status"
    /\ \E id \in Created :
          /\ contracts[id].status = "ACTIVE"
          /\ Len(SelectSeq(events[id], LAMBDA e : e.name = "ContractAccepted")) = 1

\* createContract is offered while the model's registry has room
CreateOffered == nextContractId < MaxContracts

ValidationErrors ==
    {"Payment required", "Invalid carrier", "Invalid recipient", "No milestones",
     "Mismatched arrays"}

\* C12: createContract with a zero value, a null carrier, a null recipient, an
\* empty locations array or arrays of different lengths fails with one of the
\* validation errors and leaves nextContractId, the registry, the balances and
\* the escrow as they were.
C12_InvalidCreateRejected ==
    CreateOffered =>
        \A sender \in Addresses, carrier \in {NullAddress, 2},
           recipient \in {NullAddress, 1},
           locations \in LocationInputs, verifiers \in VerifierInputs :
            \A value \in 0..balance[sender] :
                LET r == createContract(State, sender, value, carrier, recipient,
                                        locations, verifiers)
                IN  (\/ value = 0
                     \/ carrier = NullAddress
                     \/ recipient = NullAddress
                     \/ Len(locations) = 0
                     \/ Len(locations) # Len(verifiers))
                        => (r.err \in ValidationErrors /\ r.state = State)

\* a creation turned away for its arrays, with nothing allocated and nothing held
C12_Witness ==
    /\ last.op = "createContract"
    /\ last.err = "Mismatched arrays"
    /\ nextContractId = 0
    /\ Created = {}
    /\ escrow = 0
    /\ balance[1] = InitialFunds

\* C13: a successful createContract stores, under the id it allocates, a record
\* with status CREATED, releasedAmount 0, completedMilestones 0, the caller as
\* shipper, the value sent (positive) as payment, and one milestone per
\* location / verifier pair, in order, none completed.
C13_CreatedRecord ==
    CreateOffered =>
        \A sender \in Addresses, carrier \in {NullAddress, 2},
           recipient \in {NullAddress, 1},
           locations \in LocationInputs, verifiers \in VerifierInputs :
            \A value \in 0..balance[sender] :
                LET r == createContract(State, sender, value, carrier, recipient,
                                        locations, verifiers)
                    c == r.state.contracts[nextContractId]
                IN  r.err = "" =>
                      /\ nextContractId \in DOMAIN r.state.contracts
                      /\ c.status = "CREATED"
                      /\ c.releasedAmount = 0
                      /\ c.completedMilestones = 0
                      /\ c.shipper = sender
                      /\ c.payment = value /\ value > 0
                      /\ Len(c.milestones) = Len(locations)
                      /\ Len(c.milestones) = Len(verifiers)
                      /\ \A i \in 1..Len(c.milestones) :
                            /\ c.milestones[i].location = locations[i]
                            /\ c.milestones[i].verifier = verifiers[i]
                            /\ c.milestones[i].completed = FALSE

\* a contract of three milestones just created
C13_Witness ==
    /\ last.op = "createContract"
    /\ last.err = ""
    /\ \E id \in Created :
          /\ contracts[id].status = "CREATED"
          /\ Len(contracts[id].milestones) = 3
          /\ contracts[id].milestones[2].verifier = 2
          /\ escrow = contracts[id].payment

\* C15: a createContract, acceptContract or verifyMilestone call that fails
\* leaves every record, nextContractId, every balance, the escrow and the event
\* log as they were before the call.
C15_FailureChangesNothing ==
    [][last'.err # "" =>
          UNCHANGED <<contracts, nextContractId, balance, escrow, events>>]_vars

\* the transfer of the second milestone refused after the first was paid
C15_Witness ==
    /\ last.op = "verifyMilestone"
    /\ last.err = "Failed to send payment"
    /\ \E id \in Created :
          /\ Len(contracts[id].milestones) = 3
          /\ contracts[id].completedMilestones = 1
          /\ ~contracts[id].milestones[2].completed
          /\ contracts[id].releasedAmount = PaymentEvents(id)[1].amount
          /\ escrow = contracts[id].payment - contracts[id].releasedAmount

\* C16: milestone i is completed exactly when i < completedMilestones, and
\* neither a completed flag nor completedMilestones ever goes back.
C16_CompletedPrefix ==
    /\ [](\A id \in Created :
            LET c == contracts[id]
            IN  /\ c.completedMilestones \in 0..Len(c.milestones)
                /\ \A i \in 0..(Len(c.milestones) - 1) :
                      c.milestones[i + 1].completed <=> i < c.completedMilestones)
    /\ [][\A id \in Created :
            /\ contracts'[id].completedMilestones >= contracts[id].completedMilestones
            /\ \A k \in DOMAIN contracts[id].milestones :
                  contracts[id].milestones[k].completed
                      => contracts'[id].milestones[k].completed]_vars

\* two of three milestones verified, the third pending
C16_Witness ==
    \E id \in Created :
        /\ Len(contracts[id].milestones) = 3
        /\ contracts[id].completedMilestones = 2
        /\ contracts[id].milestones[1].completed
        /\ contracts[id].milestones[2].completed
        /\ ~contracts[id].milestones[3].completed
        /\ contracts[id].status = "ACTIVE"

\* C17: a COMPLETED contract has every milestone completed, and the status
\* becomes COMPLETED only in a successful verifyMilestone step that completes
\* the final milestone.
C17_CompletedOnlyByFinalMilestone ==
    /\ [](\A id \in Created :
            contracts[id].status = "COMPLETED" =>
                /\ contracts[id].completedMilestones = Len(contracts[id].milestones)
                /\ \A k \in DOMAIN contracts[id].milestones :
                      contracts[id].milestones[k].completed)
    /\ [][\A id \in DOMAIN contracts' :
            (/\ contracts'[id].status = "COMPLETED"
             /\ StorageAt(contracts, id).status # "COMPLETED")
            => LET c == StorageAt(contracts, id)
                   n == Len(c.milestones)
               IN  /\ id \in Created
                   /\ last'.op = "verifyMilestone" /\ last'.err = ""
                   /\ n >= 1
                   /\ c.completedMilestones = n - 1
                   /\ ~c.milestones[n].completed
                   /\ contracts'[id].milestones[n].completed
                   /\ events'[id][Len(events'[id])].name = "MilestoneVerified"
                   /\ events'[id][Len(events'[id])].milestoneIndex = n - 1]_vars

\* the final milestone of a two-milestone contract just verified
C17_Witness ==
    /\ last.op = "verifyMilestone"
    /\ last.err = ""
    /\ \E id \in Created :
          /\ contracts[id].status = "COMPLETED"
          /\ Len(contracts[id].milestones) = 2
          /\ contracts[id].completedMilestones = 2
          /\ Len(VerifiedEvents(id)) = 2
          /\ VerifiedEvents(id)[2].milestoneIndex = 1

\* the milestones of d differ from those of c in the completed flag of at most
\* one milestone, and in nothing else
C18_OneFlagChanged(c, d) ==
    /\ DOMAIN d.milestones = DOMAIN c.milestones
    /\ \A k \in DOMAIN c.milestones :
          d.milestones[k] = [c.milestones[k] EXCEPT !.completed = d.milestones[k].completed]
    /\ Cardinality({k \in DOMAIN c.milestones :
                      d.milestones[k].completed # c.milestones[k].completed}) <= 1

\* C18: no step changes the shipper, carrier, recipient, payment, number of
\* milestones, or a milestone's commitment hash, location or verifier of a
\* created contract; acceptContract changes only status, verifyMilestone only
\* one completed flag, completedMilestones, releasedAmount and status.
C18_FrameOfRecords ==
    [][\A id \in Created :
          LET c == contracts[id]
              d == contracts'[id]
          IN  /\ id \in DOMAIN contracts'
              /\ d.shipper = c.shipper /\ d.carrier = c.carrier
              /\ d.recipient = c.recipient /\ d.payment = c.payment
              /\ Len(d.milestones) = Len(c.milestones)
              /\ \A k \in DOMAIN c.milestones :
                    /\ d.milestones[k].qrHash = c.milestones[k].qrHash
                    /\ d.milestones[k].location = c.milestones[k].location
                    /\ d.milestones[k].verifier = c.milestones[k].verifier
              /\ last'.op = "createContract" => d = c
              /\ last'.op = "acceptContract" => d = [c EXCEPT !.status = d.status]
              /\ last'.op = "verifyMilestone" =>
                    /\ C18_OneFlagChanged(c, d)
                    /\ d = [c EXCEPT !.milestones = d.milestones,
                                     !.completedMilestones = d.completedMilestones,
                                     !.releasedAmount = d.releasedAmount,
                                     !.status = d.status]]_vars

\* a contract accepted and verified once, still holding what creation stored
C18_Witness ==
    /\ last.op = "verifyMilestone"
    /\ last.err = ""
    /\ \E id \in Created :
          LET c == contracts[id]
          IN  /\ Len(c.milestones) = 3
              /\ c.completedMilestones = 1
              /\ c.status = "ACTIVE"
              /\ c.payment = escrow + c.releasedAmount
              /\ \A k \in DOMAIN c.milestones :
                    c.milestones[k].qrHash =
                        Keccak256(EncodePacked(id, c.milestones[k].location,
                                               c.milestones[k].verifier))

\* C20: on an ACTIVE contract of exactly one milestone, the verifier presenting
\* the committed bytes can verify it, and every successful verification pays
\* the whole payment to the carrier and sets the status to COMPLETED.
C20_SingleMilestonePaysAll ==
    \A id \in Created :
        LET c == contracts[id]
        IN  (Len(c.milestones) = 1 /\ c.status = "ACTIVE") =>
              /\ VerifyResult(c.milestones[1].verifier, id, 0,
                              EncodePacked(id, c.milestones[1].location,
                                           c.milestones[1].verifier), TRUE).err = ""
              /\ \A sender \in Addresses, i \in MilestoneIndexes(id),
                    qrData \in QRInputs :
                    LET r == VerifyResult(sender, id, i, qrData, TRUE)
                        d == r.state.contracts[id]
                        evs == r.state.events[id]
                    IN  r.err = "" =>
                          /\ d.status = "COMPLETED"
                          /\ d.releasedAmount = c.payment
                          /\ r.state.balance[c.carrier] = balance[c.carrier] + c.payment
                          /\ r.state.escrow = escrow - c.payment
                          /\ evs[Len(evs) - 1].name = "PaymentReleased"
                          /\ evs[Len(evs) - 1].amount = c.payment

\* a one-milestone contract holding all the funds, paid out in one verification
C20_Witness ==
    /\ last.op = "verifyMilestone"
    /\ last.err = ""
    /\ \E id \in Created :
          /\ Len(contracts[id].milestones) = 1
          /\ contracts[id].payment = InitialFunds
          /\ contracts[id].status = "COMPLETED"
          /\ contracts[id].releasedAmount = InitialFunds
          /\ balance[contracts[id].carrier] = InitialFunds
          /\ escrow = 0
          /\ Len(PaymentEvents(id)) = 1
          /\ PaymentEvents(id)[1].amount = InitialFunds

CreatedEvents(id) == SelectSeq(events[id], LAMBDA e : e.name = "ContractCreated")

\* C14: the identifiers allocated are 0 .. nextContractId - 1, one per
\* successful createContract, each announced once with its own value; a
\* successful createContract stores its record under the old nextContractId
\* and advances the counter by one; no step removes a record or lets a
\* creation overwrite one.
C14_SequentialIds ==
    /\ [](/\ Created = 0..(nextContractId - 1)
          /\ DOMAIN events = Created
          /\ \A id \in Created :
                /\ Len(CreatedEvents(id)) = 1
                /\ events[id][1].name = "ContractCreated"
                /\ events[id][1].contractId = id)
    /\ [][/\ Created \subseteq DOMAIN contracts'
          /\ IF last'.op = "createContract" /\ last'.err = ""
             THEN /\ nextContractId' = nextContractId + 1
                  /\ DOMAIN contracts' = Created \cup {nextContractId}
                  /\ nextContractId \notin Created
                  /\ events'[nextContractId' - 1] =
                        <<Event("ContractCreated", nextContractId,
                                contracts'[nextContractId].shipper,
                                contracts'[nextContractId].payment, 0)>>
                  /\ \A id \in Created : contracts'[id] = contracts[id]
             ELSE /\ nextContractId' = nextContractId
                  /\ DOMAIN contracts' = Created]_vars

\* a second contract created while the first is already completed
C14_Witness ==
    /\ last.op = "createContract"
    /\ last.err = ""
    /\ nextContractId = 2
    /\ Created = {0, 1}
    /\ contracts[0].status = "COMPLETED"
    /\ contracts[1].status = "CREATED"
    /\ events[1][1].contractId = 1

LookupIds == 0..(MaxContracts + 1)

C24_CommitmentConsumed ==
    \A id \in Created, qrData \in QRInputs :
        (\E k \in DOMAIN contracts[id].milestones :
            /\ contracts[id].milestones[k].completed
            /\ contracts[id].milestones[k].qrHash = Keccak256(qrData))
        => \A sender \in Addresses, i \in MilestoneIndexes(id) :
              VerifyResult(sender, id, i, qrData, TRUE).err # ""

\* C29: verifyMilestone reports the first failing check in the order status,
\* index range, order, caller, commitment, whatever else is wrong with the
\* call.
C29_CheckOrder ==
    \A id \in ContractIds :
    \A sender \in Addresses, i \in MilestoneIndexes(id), qrData \in QRInputs :
        LET c == StorageAt(contracts, id)
            err == VerifyResult(sender, id, i, qrData, TRUE).err
        IN  IF c.status # "ACTIVE" THEN err = "Invalid status"
            ELSE IF i >= Len(c.milestones) THEN err = "Invalid milestone"
            ELSE IF i # c.completedMilestones THEN err = "Out of order"
            ELSE IF sender # c.milestones[i + 1].verifier THEN err = "Not authorized"
            ELSE IF Keccak256(qrData) # c.milestones[i + 1].qrHash
                 THEN err = "Invalid QR code"
            ELSE err = ""

\* an index out of range presented on an ACTIVE contract with milestones
\* pending: the range is reported, not the order
C29_Witness ==
    /\ last.op = "verifyMilestone"
    /\ last.err = "Invalid milestone"
    /\ \E id \in Created :
          /\ contracts[id].status = "ACTIVE"
          /\ Len(contracts[id].milestones) = 3
          /\ contracts[id].completedMilestones = 1

\* the bytes committed for milestone i of contract id
C30_Commitment(id, i) ==
    EncodePacked(id, contracts[id].milestones[i + 1].location,
                 contracts[id].milestones[i + 1].verifier)

\* C30: with more milestones than payment units, creation is accepted; each
\* non-final verification by the right verifier with the right bytes succeeds
\* when the carrier accepts the (zero-value) transfer, which is still made,
\* and releases 0; the final one releases the whole payment; releasedAmount is
\* 0 until then.
C30_MoreMilestonesThanPayment ==
    /\ CreateOffered =>
          \A sender \in Addresses, locations \in LocationInputs,
             verifiers \in VerifierInputs :
              \A value \in 1..balance[sender] :
                  (Len(locations) = Len(verifiers) /\ Len(locations) > value)
                      => createContract(State, sender, value, 2, 1,
                                        locations, verifiers).err = ""
    /\ \A id \in Created :
          LET c == contracts[id]
              n == Len(c.milestones)
              i == c.completedMilestones
          IN  n > c.payment =>
                /\ c.status # "COMPLETED" => c.releasedAmount = 0
                /\ \A k \in 1..Len(PaymentEvents(id)) :
                      PaymentEvents(id)[k].amount =
                          IF PaymentEvents(id)[k].milestoneIndex = n - 1
                          THEN c.payment ELSE 0
                /\ c.status = "ACTIVE" =>
                      LET v == c.milestones[i + 1].verifier
                          r == VerifyResult(v, id, i, C30_Commitment(id, i), TRUE)
                          f == VerifyResult(v, id, i, C30_Commitment(id, i), FALSE)
                          paid == IF i = n - 1 THEN c.payment ELSE 0
                      IN  /\ r.err = ""
                          /\ f.err = "Failed to send payment"
                          /\ r.state.contracts[id].releasedAmount = paid
                          /\ r.state.escrow = escrow - paid
                          /\ r.state.balance[c.carrier] = balance[c.carrier] + paid

\* a payment of 1 over three milestones, two of them verified for nothing
C30_Witness ==
    /\ last.op = "verifyMilestone"
    /\ last.err = ""
    /\ \E id \in Created :
          /\ contracts[id].payment = 1
          /\ Len(contracts[id].milestones) = 3
          /\ contracts[id].completedMilestones = 2
          /\ contracts[id].releasedAmount = 0
          /\ escrow = 1
          /\ balance[contracts[id].carrier] = 0
          /\ Len(PaymentEvents(id)) = 2
          /\ PaymentEvents(id)[2].amount = 0

\* C25: bytes whose digest is the commitment of a milestone of one contract
\* are accepted for no milestone of any other contract, and fail there with
\* "Invalid QR code" whenever the call gets as far as the commitment check.
C25_CommitmentPerContract ==
    \A id \in Created, other \in Created, qrData \in RegistryQRInputs :
        (/\ other # id
         /\ \E k \in DOMAIN contracts[id].milestones :
               contracts[id].milestones[k].qrHash = Keccak256(qrData))
        => \A sender \in Addresses, i \in MilestoneIndexes(other) :
              LET c == contracts[other]
                  r == VerifyResult(sender, other, i, qrData, TRUE)
              IN  /\ r.err # ""
                  /\ (/\ c.status = "ACTIVE"
                      /\ i = c.completedMilestones
                      /\ i < Len(c.milestones)
                      /\ sender = c.milestones[i + 1].verifier)
                        => r.err = "Invalid QR code"

\* two ACTIVE contracts whose first milestones have the same location and
\* verifier, and bytes just rejected for their digest
C25_Witness ==
    /\ last.op = "verifyMilestone"
    /\ last.err = "Invalid QR code"
    /\ Created = {0, 1}
    /\ contracts[0].status = "ACTIVE" /\ contracts[1].status = "ACTIVE"
    /\ contracts[0].completedMilestones = 0 /\ contracts[1].completedMilestones = 0
    /\ contracts[0].milestones[1].location = contracts[1].milestones[1].location
    /\ contracts[0].milestones[1].verifier = contracts[1].milestones[1].verifier
    /\ contracts[0].milestones[1].qrHash # contracts[1].milestones[1].qrHash

\* C21: under FairSpec every created contract eventually is COMPLETED with
\* releasedAmount = payment, the payments released for it adding up to the
\* payment; at no time do they add up to more.
C21_EventuallyPaidInFull ==
    /\ \A id \in 0..(MaxContracts - 1) :
          (id \in Created) ~>
              (/\ id \in Created
               /\ contracts[id].status = "COMPLETED"
               /\ contracts[id].releasedAmount = contracts[id].payment
               /\ SumAmounts(PaymentEvents(id)) = contracts[id].payment)
    /\ [](\A id \in Created :
            /\ SumAmounts(PaymentEvents(id)) = contracts[id].releasedAmount
            /\ SumAmounts(PaymentEvents(id)) <= contracts[id].payment)

\* all the funds paid out over three milestones
C21_Witness ==
    \E id \in Created :
        /\ contracts[id].status = "COMPLETED"
        /\ Len(contracts[id].milestones) = 3
        /\ contracts[id].payment = InitialFunds
        /\ contracts[id].releasedAmount = InitialFunds
        /\ Len(PaymentEvents(id)) = 3
        /\ SumAmounts(PaymentEvents(id)) = InitialFunds
        /\ balance[contracts[id].carrier] = InitialFunds
        /\ escrow = 0

\* C26: in the five-status generation no contract is ever DISPUTED.
C26_NeverDisputed ==
    \A id \in Created :
        /\ contracts[id].status \in StatusV1
        /\ contracts[id].status # "DISPUTED"

\* a contract taken through every status the calls can write, its milestones
\* verified out of order on the way
C26_Witness ==
    /\ last.op = "verifyMilestone"
    /\ last.err = ""
    /\ \E id \in Created :
          /\ contracts[id].status = "DELIVERED"
          /\ Len(contracts[id].milestones) = 3
          /\ contracts[id].completedMilestones = 3
          /\ VerifiedEvents(id)[1].milestoneIndex = 1
          /\ VerifiedEvents(id)[2].milestoneIndex = 0

\* C27: in the five-status generation a DELIVERED contract has every
\* milestone completed and its whole payment transferred to the carrier.
C27_DeliveredMeansAllDone ==
    \A id \in Created :
        contracts[id].status = "DELIVERED" =>
            /\ contracts[id].completedMilestones = Len(contracts[id].milestones)
            /\ \A k \in DOMAIN contracts[id].milestones :
                  contracts[id].milestones[k].completed
            /\ SumAmounts(PaymentEvents(id)) = contracts[id].payment

\* C28: in the five-status generation a contract all of whose milestones are
\* verified is DELIVERED and its payment has been released to the carrier.
C28_AllVerifiedMeansDelivered ==
    \A id \in Created :
        (\A k \in DOMAIN contracts[id].milestones :
            contracts[id].milestones[k].completed)
        => /\ contracts[id].status = "DELIVERED"
           /\ SumAmounts(PaymentEvents(id)) = contracts[id].payment

\* the transactions of the mempool that are attempts at milestone i of contract id
Attempts(id, i) ==
    {k \in DOMAIN mempool :
        mempool[k].contractId = id /\ mempool[k].milestoneIndex = i}

Succeeded(id, i) == {k \in Attempts(id, i) : mempool[k].result = "ok"}

PaymentsFor(id, i) ==
    {k \in 1..Len(PaymentEvents(id)) : PaymentEvents(id)[k].milestoneIndex = i}

\* C22 as claimed: of two or more concurrent attempts at the same milestone,
\* all by its verifier with the committed bytes, exactly one succeeds once all
\* are mined.
C22_ExactlyOneSucceeds ==
    \A id \in Created, i \in 0..(MaxMilestones - 1) :
        (/\ Cardinality(Attempts(id, i)) >= 2
         /\ \A k \in Attempts(id, i) : mempool[k].result # "pending")
        => Cardinality(Succeeded(id, i)) = 1

\* C22 amended: of the concurrent attempts at the same milestone at most one
\* succeeds, and one payment is released for the milestone exactly if one
\* did; the others fail and release nothing; once all are mined exactly one
\* has succeeded, unless the carrier refused the transfer of every one of
\* them, each of which then failed with "Failed to send payment".
C22_AtMostOneSucceeds ==
    \A id \in Created, i \in 0..(MaxMilestones - 1) :
        /\ Cardinality(Succeeded(id, i)) <= 1
        /\ Cardinality(PaymentsFor(id, i)) = Cardinality(Succeeded(id, i))
        /\ \A k \in Attempts(id, i) \ Succeeded(id, i) :
              mempool[k].result \in {"pending", "Failed to send payment",
                                     "Out of order", "Invalid status"}
        /\ (/\ Attempts(id, i) # {}
            /\ \A k \in Attempts(id, i) : mempool[k].result # "pending")
           => \/ Cardinality(Succeeded(id, i)) = 1
              \/ \A k \in Attempts(id, i) :
                    mempool[k].result = "Failed to send payment"

\* three attempts at one milestone all mined, the one sent second winning
C22_Witness ==
    /\ Len(mempool) = 3
    /\ \A k \in 1..3 : mempool[k].contractId = 0 /\ mempool[k].milestoneIndex = 0
    /\ mempool[2].result = "ok"
    /\ mempool[1].result \in {"Out of order", "Invalid status"}
    /\ mempool[3].result = "Failed to send payment"
    /\ Len(PaymentEvents(0)) = 1

\* C23: a verifyMilestone call the carrier makes while it is being paid fails,
\* whichever contract and milestone it is for, and one top-level
\* verifyMilestone call moves its own release amount out of the contract when
\* it succeeds and nothing when it fails.
C23_ReentrantCallFails ==
    /\ nested.op = "verifyMilestone" => nested.err # ""
    /\ \A k \in DOMAIN mempool, callback \in Callbacks, accepts \in BOOLEAN :
          mempool[k].result = "pending" =>
            LET tx == mempool[k]
                c == contracts[tx.contractId]
                r == verifyMilestoneCall(State, tx.sender, tx.contractId,
                                         tx.milestoneIndex, tx.qrData, callback, accepts)
            IN  /\ (callback.reenters /\ r.inner # "none") => r.inner # ""
                /\ escrow - r.state.escrow =
                      IF r.err = "" THEN ReleaseAmount(c, tx.milestoneIndex) ELSE 0
                /\ r.err = "" =>
                      r.state.contracts =
                          [contracts EXCEPT ![tx.contractId] =
                              Advance(c, tx.milestoneIndex,
                                      ReleaseAmount(c, tx.milestoneIndex))]

\* the carrier paid for the first milestone of contract 0 and turned away
\* when it called back to verify a milestone of contract 1
C23_Witness ==
    /\ last.op = "verifyMilestone"
    /\ last.err = ""
    /\ nested = [op |-> "verifyMilestone", contractId |-> 1,
                 err |-> "ReentrancyGuardReentrantCall"]
    /\ Len(mempool) = 1
    /\ mempool[1].contractId = 0
    /\ mempool[1].result = "ok"
    /\ Created = {0, 1}
    /\ contracts[1].status = "ACTIVE"
    /\ contracts[0].completedMilestones = 1
    /\ Len(PaymentEvents(0)) = 1

\* C31: when the carrier is called with the value, the milestone is already
\* marked completed, completedMilestones is already one more, releasedAmount
\* already includes the amount sent and, for the final milestone, status is
\* already COMPLETED; the carrier's code reads that record and not the one
\* before the call, whether it then takes the value or refuses it.
C31_CommitThenPay ==
    nested.op = "observe" =>
        /\ nested.seen.milestone.completed
        /\ ~nested.before.milestone.completed
        /\ nested.seen.contract.completedMilestones =
              nested.before.contract.completedMilestones + 1
        /\ nested.seen.contract.releasedAmount =
              nested.before.contract.releasedAmount + nested.value
        /\ (nested.milestoneIndex =
               Len(contracts[nested.contractId].milestones) - 1)
              => nested.seen.contract.status = "COMPLETED"
        /\ (nested.milestoneIndex #
               Len(contracts[nested.contractId].milestones) - 1)
              => nested.seen.contract.status = "ACTIVE"
        /\ nested.seen # nested.before
        \* and a call that succeeds leaves the record as the carrier read it
        /\ (last.op = "verifyMilestone" /\ last.err = "") =>
              nested.seen.contract = contractsGetter(State, nested.contractId)

\* the carrier read the record during the transfer of the final milestone of a
\* two-milestone contract, saw it COMPLETED with the whole payment released,
\* and refused the value: the record is back to one milestone completed
C31_Witness ==
    /\ nested.op = "observe"
    /\ nested.contractId = 0
    /\ nested.milestoneIndex = 1
    /\ nested.value = 1
    /\ nested.seen.contract.status = "COMPLETED"
    /\ nested.seen.contract.releasedAmount = 2
    /\ last = [op |-> "verifyMilestone", err |-> "Failed to send payment"]
    /\ contracts[0].status = "ACTIVE"
    /\ contracts[0].completedMilestones = 1

\* C32: for every contract releasedAmount is the sum of the amounts of its
\* PaymentReleased events and completedMilestones is the number of its
\* MilestoneVerified events; a successful verifyMilestone appends to the log
\* of its contract one PaymentReleased, carrying the carrier, the amount
\* released and the index, and then one MilestoneVerified carrying the verifier
\* and the index, and leaves the other logs alone; a failing call emits nothing.
C32_EventsReconstructState ==
    /\ [](\A id \in Created :
            /\ contracts[id].releasedAmount = SumAmounts(PaymentEvents(id))
            /\ contracts[id].completedMilestones = Len(VerifiedEvents(id)))
    /\ [][/\ last'.err # "" => events' = events
          /\ (last'.op = "verifyMilestone" /\ last'.err = "") =>
                \E id \in Created :
                    LET c == contracts[id]
                        i == c.completedMilestones
                    IN  /\ i < Len(c.milestones)
                        /\ contracts'[id].completedMilestones = i + 1
                        /\ events' = [events EXCEPT ![id] = @ \o
                              << Event("PaymentReleased", id, c.carrier,
                                       contracts'[id].releasedAmount - c.releasedAmount,
                                       i),
                                 Event("MilestoneVerified", id,
                                       c.milestones[i + 1].verifier, 0, i) >>]]_vars

\* a three-milestone contract paid 1, 1 and 2 of a payment of 4: three events
\* of each kind and a refused attempt in between left no trace
C32_Witness ==
    /\ 0 \in Created
    /\ contracts[0].payment = 4
    /\ contracts[0].releasedAmount = 4
    /\ Len(PaymentEvents(0)) = 3
    /\ Len(VerifiedEvents(0)) = 3
    /\ PaymentEvents(0)[3].amount = 2
    /\ PaymentEvents(0)[3].milestoneIndex = 2
    /\ last = [op |-> "verifyMilestone", err |-> ""]

\* C33: for every created contract and each of its milestones, the bytes
\* generateMilestoneQRData packs from the contract id and the milestone's
\* location and verifier hash to the commitment stored for the milestone, and
\* the verifier presenting them for the next milestone of an ACTIVE contract,
\* to a carrier that takes the payment, succeeds.
C33_QRDataRoundTrip ==
    \A id \in Created :
    \A k \in DOMAIN contracts[id].milestones :
        LET c == contracts[id]
            m == c.milestones[k]
            qrData == generateMilestoneQRData(id, m.location, m.verifier)
        IN  /\ Keccak256(qrData) = m.qrHash
            /\ (c.status = "ACTIVE" /\ k - 1 = c.completedMilestones) =>
                  /\ verifyMilestone(State, m.verifier, id, k - 1, qrData, TRUE).err = ""
                  /\ verifyMilestoneCall(State, m.verifier, id, k - 1, qrData,
                                         NoCallback, TRUE).err = ""

\* the second milestone of contract 1 was verified with the bytes packed by
\* the client from (1, "B", verifier 2)
C33_Witness ==
    /\ 1 \in Created
    /\ Len(contracts[1].milestones) = 2
    /\ contracts[1].status = "COMPLETED"
    /\ \E k \in DOMAIN mempool :
          /\ mempool[k].contractId = 1
          /\ mempool[k].milestoneIndex = 1
          /\ mempool[k].qrData = generateMilestoneQRData(1, LocB, 2)
          /\ mempool[k].result = "ok"

\* C34: the packed bytes of (contractId as 32 bytes, location as its raw bytes,
\* verifier as 20 bytes) determine the triple: two distinct triples are never
\* packed to the same byte string, and the three fields are read back from the
\* bytes by their positions.
C34_PackedEncodingUnambiguous ==
    /\ \A j, k \in DOMAIN mempool :
          (/\ mempool[j].packed /\ mempool[k].packed
           /\ mempool[j].bytes = mempool[k].bytes)
          => mempool[j].triple = mempool[k].triple
    /\ \A k \in DOMAIN mempool :
          mempool[k].packed =>
            LET bytes == mempool[k].bytes
                n == Len(bytes)
            IN  /\ n = UintBytes + Len(mempool[k].triple.location) + AddressBytes
                /\ SubSeq(bytes, 1, UintBytes) =
                      BigEndian(mempool[k].triple.contractId, UintBytes)
                /\ SubSeq(bytes, UintBytes + 1, n - AddressBytes) =
                      mempool[k].triple.location
                /\ SubSeq(bytes, n - AddressBytes + 1, n) =
                      BigEndian(mempool[k].triple.verifier, AddressBytes)

\* (1, "", 1) and (0, "\x01", 1) both packed: the same bytes once the leading
\* zeros are dropped, different bytes as they are packed
C34_Witness ==
    /\ Len(mempool) = 2
    /\ mempool[1].triple = [contractId |-> 1, location |-> <<>>, verifier |-> 1]
    /\ mempool[2].triple = [contractId |-> 0, location |-> <<1>>, verifier |-> 1]
    /\ mempool[1].packed
    /\ mempool[2].packed
    /\ mempool[1].bytes # mempool[2].bytes

\* what the contracts still owe their carriers: the sum over the records of
\* payment - releasedAmount
RECURSIVE Owed(_, _)
Owed(cs, ids) ==
    IF ids = {} THEN 0
    ELSE LET id == CHOOSE x \in ids : TRUE
         IN  (cs[id].payment - cs[id].releasedAmount) + Owed(cs, ids \ {id})

\* C35: the ether held by the contract is the sum over all records of
\* payment - releasedAmount; so a milestone's release is never more than what
\* is left of its own contract's payment, the contract always holds it, and
\* verifyMilestone fails at the transfer only when the carrier refuses.
C35_EscrowSolvent ==
    /\ escrow = Owed(contracts, Created)
    /\ \A id \in Created : contracts[id].releasedAmount \in 0..contracts[id].payment
    /\ \A id \in Created, sender \in Addresses, qrData \in RegistryQRInputs :
       \A i \in MilestoneIndexes(id) :
          VerifyChecks(contracts[id], sender, i, qrData) = "" =>
            LET c == contracts[id]
                amount == ReleaseAmount(c, i)
                r == VerifyResult(sender, id, i, qrData, TRUE)
            IN  /\ amount \in 0..(c.payment - c.releasedAmount)
                /\ amount <= escrow
                /\ r.err = ""
                /\ r.state.escrow = Owed(r.state.contracts, Created)
                /\ \A other \in Created \ {id} :
                      r.state.contracts[other] = contracts[other]

\* two contracts hold 1 and 2; the first milestone of the second was paid 1
\* out of its own 2, and the contract holds the 2 still owed in all
C35_Witness ==
    /\ Created = {0, 1}
    /\ contracts[0].payment = 1
    /\ contracts[0].releasedAmount = 0
    /\ contracts[1].payment = 2
    /\ contracts[1].releasedAmount = 1
    /\ escrow = 2
    /\ last = [op |-> "verifyMilestone", err |-> ""]

\* C36: a successful acceptContract or verifyMilestone on one contract leaves
\* the record and the event log of every other contract as they were, and
\* createContract leaves every existing record and log as they were.
C36_ContractsIsolated ==
    [][/\ (last'.op = "acceptContract" /\ contracts' # contracts) =>
             \E id \in Created :
                /\ contracts[id].status = "CREATED"
                /\ contracts' = [contracts EXCEPT ![id].status = "ACTIVE"]
                /\ \A other \in Created \ {id} : events'[other] = events[other]
       /\ \A k \in DOMAIN mempool :
             (mempool[k].result = "pending" /\ mempool'[k].result = "ok") =>
                /\ contracts'[mempool[k].contractId] # contracts[mempool[k].contractId]
                /\ \A other \in Created \ {mempool[k].contractId} :
                      /\ contracts'[other] = contracts[other]
                      /\ events'[other] = events[other]
       /\ nextContractId' # nextContractId =>
             /\ last'.op = "createContract"
             /\ DOMAIN contracts' = Created \cup {nextContractId}
             /\ \A other \in Created :
                   /\ contracts'[other] = contracts[other]
                   /\ events'[other] = events[other]]_vars

\* contract 1 was created after contract 0 was accepted, then accepted, and
\* its only milestone verified, while contract 0, with the same carrier and
\* its first milestone waiting in the mempool, is still as it was accepted
C36_Witness ==
    /\ Created = {0, 1}
    /\ contracts[0].carrier = contracts[1].carrier
    /\ contracts[0].status = "ACTIVE"
    /\ contracts[0].completedMilestones = 0
    /\ Len(events[0]) = 2
    /\ contracts[1].status = "COMPLETED"
    /\ Len(mempool) = 2
    /\ mempool[1].contractId = 0 /\ mempool[1].result = "pending"
    /\ mempool[2].contractId = 1 /\ mempool[2].result = "ok"
    /\ last = [op |-> "verifyMilestone", err |-> ""]

\* C37: a contract whose status is CREATED has released nothing: its
\* releasedAmount and completedMilestones are 0, none of its milestones is
\* completed, no payment or verification event was emitted for it and the
\* contract still holds its whole payment.
C37_NothingReleasedBeforeAcceptance ==
    \A id \in Created :
        contracts[id].status = "CREATED" =>
            /\ contracts[id].releasedAmount = 0
            /\ contracts[id].completedMilestones = 0
            /\ \A k \in DOMAIN contracts[id].milestones :
                  ~contracts[id].milestones[k].completed
            /\ PaymentEvents(id) = <<>>
            /\ VerifiedEvents(id) = <<>>
            /\ escrow >= contracts[id].payment

\* a contract of three milestones still CREATED after a verification of its
\* first milestone was attempted: the attempt was turned away and nothing moved
C37_Witness ==
    /\ 0 \in Created
    /\ contracts[0].status = "CREATED"
    /\ Len(contracts[0].milestones) = 3
    /\ contracts[0].payment = 3
    /\ escrow = 3
    /\ balance[contracts[0].carrier] = 0
    /\ last = [op |-> "verifyMilestone", err |-> "Invalid status"]

\* the accounts named in a record other than as its carrier
OtherRoles(c) ==
    {c.shipper, c.recipient} \cup {c.milestones[k].verifier : k \in DOMAIN c.milestones}

\* C38 as stated: every payment went to the carrier recorded for its contract,
\* and no account that is the shipper, the recipient or a verifier of that
\* contract, the caller of the verification among them, was ever paid.
C38_OnlyCarrierNoOtherRolePaid ==
    \A id \in Created :
    \A k \in DOMAIN PaymentEvents(id) :
        /\ PaymentEvents(id)[k].who = contracts[id].carrier
        /\ PaymentEvents(id)[k].who \notin OtherRoles(contracts[id])

\* C38, amended: ether leaves the contract only in a successful verifyMilestone
\* and goes, whole, to the carrier recorded for the contract verified; an
\* account's balance grows in no other way, so the shipper, the recipient, a
\* verifier or the caller is paid only if it is that carrier.
C38_OnlyCarrierPaid ==
    /\ [](\A id \in Created :
          \A k \in DOMAIN PaymentEvents(id) :
              PaymentEvents(id)[k].who = contracts[id].carrier)
    /\ [][/\ escrow' < escrow =>
              /\ last' = [op |-> "verifyMilestone", err |-> ""]
              /\ \E id \in Created :
                    /\ contracts'[id].releasedAmount =
                          contracts[id].releasedAmount + (escrow - escrow')
                    /\ balance' = [balance EXCEPT ![contracts[id].carrier] =
                                                     @ + (escrow - escrow')]
          /\ \A a \in Addresses :
                balance'[a] > balance[a] =>
                    /\ escrow - escrow' = balance'[a] - balance[a]
                    /\ \E id \in Created :
                          /\ a = contracts[id].carrier
                          /\ contracts'[id].releasedAmount > contracts[id].releasedAmount
          /\ \A a \in Addresses :
                balance'[a] < balance[a] =>
                    /\ last' = [op |-> "createContract", err |-> ""]
                    /\ escrow' - escrow = balance[a] - balance'[a]]_vars

\* the carrier of contract 0 is also the verifier of its second milestone: it
\* verified it and was paid, as the carrier, in the call it made
C38_Witness ==
    /\ 0 \in Created
    /\ contracts[0].carrier = 2
    /\ contracts[0].shipper = 1
    /\ Len(contracts[0].milestones) >= 2
    /\ contracts[0].milestones[2].verifier = 2
    /\ contracts[0].completedMilestones = 2
    /\ Len(PaymentEvents(0)) = 2
    /\ PaymentEvents(0)[2].who = 2
    /\ balance[2] = contracts[0].releasedAmount
    /\ balance[1] = InitialFunds - contracts[0].payment
    /\ last = [op |-> "verifyMilestone", err |-> ""]

\* C39: when the contract loaded is ACTIVE on the chain and on the screen, no
\* scan is in progress, and the data pasted for the pending milestone is the
\* data generated for it, one click on "Verify with QR Data" of that milestone
\* submits verifyMilestone(contractId, index, data).
C39_ManualVerifySubmits ==
    [][\A index \in 0..(MaxMilestones - 1) :
          (/\ ui'.clicks = ui.clicks + 1
           /\ ui'.clicked = index
           /\ ui.contractId \in Created
           /\ contracts[ui.contractId].status = "ACTIVE"
           /\ index = contracts[ui.contractId].completedMilestones
           /\ ManualInputShown(index)
           /\ ui.scanningMilestone = NullIndex
           /\ ~ui.scannerOpen
           /\ ui.verifying = NullIndex
           /\ ui.manualQRData[index] = Committed(ui.contractId, index))
          => /\ Len(mempool') = Len(mempool) + 1
             /\ mempool'[Len(mempool')].contractId = ui.contractId
             /\ mempool'[Len(mempool')].milestoneIndex = index
             /\ mempool'[Len(mempool')].qrData = ui.manualQRData[index]]_vars

\* C40: once the scanner is closed and no startScanning is still waiting for
\* the camera, every stream it acquired has been stopped and every reader it
\* made has been reset and dropped.
C40_ClosedScannerReleasesCamera ==
    (/\ ~scanner.isOpen
     /\ \A k \in DOMAIN scanner.requests : scanner.requests[k] # "pending")
    => /\ \A k \in DOMAIN scanner.streams : scanner.streams[k] # "live"
       /\ \A k \in DOMAIN scanner.readers : scanner.readers[k] # "decoding"
       /\ scanner.readerRef = 0

====
